---- MODULE Spec2Model ----
(***************************************************************************)
(* puslib: the generic service dispatch loop (PusService), the request    *)
(* verification service (PUS 1) and the application process facade.       *)
(*                                                                         *)
(* A telemetry packet is the record of the keyword arguments its factory  *)
(* received; the time stamp is read from the clock and is not modelled.   *)
(* Byte strings are sequences of numbers in 0..255.                        *)
(***************************************************************************)
EXTENDS Integers, Sequences, FiniteSets, TLC

VARIABLES
    queue,   \* service number -> _incoming_tc_queue of that service
    out,     \* tm_output_stream: the packets written, in order
    seqc,    \* the value the identity's sequence counter returns next
    admitted,\* observer: service number -> the commands its queue took, in order
    calls,   \* observer: handler invocations [tc, ret, at, end], in order
    stages,  \* observer: direct stage operations [stage, at], in order
    last,    \* observer: the last operation and the exception it raised
    rv,      \* the arguments of the direct stage operations of this run
    gen,     \* a PusIdent of its own: the generator's seq_count, the number
             \* of seq_count() calls made, the last two values returned
    hk,      \* the housekeeping service: _params, _housekeeping_reports,
             \* _diagnostic_reports
    ev,      \* the event reporting service and its trigger parameter: the
             \* parameter's value and subscribers, and _reports in the order
             \* the reports were added
    par,     \* an integer parameter of its own: its type, _value and _events
    pkt,     \* the packet codec: the packet at hand and the bytes it became
    crc,     \* a checksum in the making: the bytes, the bytes taken so far
             \* and the register
    policy   \* the puslib module: the nested policy classes, the policy
             \* instances made so far and _pus_policy

vars == <<queue, out, seqc, admitted, calls, stages, last, rv, gen, hk, ev, par, pkt, crc, policy>>

\* the state of the components the dispatch and stage specifications leave alone
ext == <<gen, hk, ev, par, pkt, crc, policy>>

---------------------------------------------------------------------------
(* Bounds of the model *)

\* telecommands submitted (queued or handled) in one run
MaxCmds == 2
\* direct stage operations in one run
MaxStageCalls == 4
\* seq_count() calls on one identity in one run: past one full cycle
MaxSeqCalls == 16386
\* housekeeping operations (add calls and commands) in one run
MaxHkOps == 2
\* operations on the event reporting service and its parameter in one run
MaxEvOps == 2
\* operations on the parameter in one run of the parameter specification
MaxParOps == 3
\* the length of the byte strings checksummed, the test vectors apart
MaxCrcLen == 2
\* the length of the payload of a packet of the codec specification
MaxPayloadLen == 2

---------------------------------------------------------------------------
(* Program constants *)

NONE == 0
ACCEPTANCE == 1
START_OF_EXECUTION == 2
PROGRESS == 4
COMPLETION == 8
AllAckFlags == 15

SeqCountModulus == 16384

UNSEGMENTED == 3

REQUEST_VERIFICATION == 1
HOUSEKEEPING == 3
EVENT_REPORTING == 5
FUNCTION_MANAGEMENT == 8
TEST == 17

ILLEGAL_APID == 0
ILLEGAL_APP_DATA == 5
PUS8_INVALID_FID == 80
PUS8_INVALID_ARGS == 82
INCOMPLETE == 1
\* Severity
INFO == 1
LOW == 2
PUS3_SID_ALREADY_PRESENT == 30
PUS3_SID_NOT_PRESENT == 31
PUS3_CANNOT_MODIFY_ENABLED_REPORT == 32
PUS3_PARAM_DUPLICATION == 33

\* failure_code_type of the default policy is UInt8Parameter
FailureCodeSize == 1
\* function_id_type of the default policy is UInt16Parameter
FunctionIdSize == 2
\* len(get_policy().housekeeping.structure_id_type()): UInt16Parameter
StructureIdSize == 2
\* len(get_policy().housekeeping.collection_interval_type()): UInt16Parameter
CollectionIntervalSize == 2
\* len(get_policy().housekeeping.count_type()): UInt16Parameter
CountSize == 2
\* struct.calcsize(get_policy().common.param_id_type().format): UInt16Parameter
ParamIdSize == 2
\* UInt32Parameter._value_size
UInt32Size == 4
\* None as a value of to_value, from_value
None == -1

\* failure_code=None
NoCode == -1

\* the APID of the identity the services are created with
IdentApid == 10

---------------------------------------------------------------------------
(* Bytes *)

RECURSIVE to_bytes(_, _)
\* int.to_bytes(size, byteorder='big')
to_bytes(v, size) ==
    IF size = 0 THEN <<>>
    ELSE Append(to_bytes(v \div 256, size - 1), v % 256)

RECURSIVE from_bytes(_)
\* int.from_bytes(buffer, byteorder='big'), the empty buffer giving 0
from_bytes(b) ==
    IF b = <<>> THEN 0
    ELSE 256 * from_bytes(SubSeq(b, 1, Len(b) - 1)) + b[Len(b)]

\* buffer[:n]
Prefix(b, n) == SubSeq(b, 1, IF Len(b) < n THEN Len(b) ELSE n)

\* buffer[n:]
Suffix(b, n) == SubSeq(b, n + 1, Len(b))

RECURSIVE unpack(_, _)
\* struct.unpack(">" + f"{n}H", b) for a buffer of n * size bytes (any other
\* length is a struct.error, which the caller tests)
unpack(size, b) ==
    IF Len(b) < size THEN <<>>
    ELSE <<from_bytes(Prefix(b, size))>> \o unpack(size, Suffix(b, size))

RECURSIVE pack(_, _)
\* the ids one after the other, each in size bytes
pack(size, ids) ==
    IF ids = <<>> THEN <<>>
    ELSE to_bytes(Head(ids), size) \o pack(size, Tail(ids))

\* len(ids) != len(set(ids))
HasDuplicates(ids) == Cardinality({ids[i] : i \in DOMAIN ids}) # Len(ids)

---------------------------------------------------------------------------
(* CRC: crc_ccitt.  Python integers are unbounded, so _initial keeps the   *)
(* bits it shifts out to the left; _update_crc masks to 16 bits.  No       *)
(* register is ever negative: a loop's test of it against 0 only has the   *)
(* register computed before the next turn is taken.                        *)

POLYNOMIAL == 4129
PRESET == 65535

RECURSIVE xor(_, _)
\* a ^ b of two integers that are not negative
xor(a, b) ==
    IF a = 0 THEN b
    ELSE IF b = 0 THEN a
    ELSE 2 * xor(a \div 2, b \div 2) + ((a + b) % 2)

RECURSIVE initial_loop(_, _, _)
\* the loop of _initial from turn j on: for j in range(8)
initial_loop(crc_, c, j) ==
    LET turn == IF (xor(crc_, c) \div 32768) % 2 = 1
                THEN xor(crc_ * 2, POLYNOMIAL)
                ELSE crc_ * 2
    IN IF j = 8 \/ turn < 0 THEN crc_
       ELSE initial_loop(turn, c * 2, j + 1)

\* _initial
_initial(c) == initial_loop(0, c * 256, 0)

\* _tab = [_initial(i) for i in range(256)]
_tab == [i \in 0..255 |-> _initial(i)]

_update_crc_no_mask(crc_, c) ==
    LET cc == c % 256
        tmp == xor(crc_ \div 256, cc)
    IN xor(crc_ * 256, _tab[tmp % 256])

\* _update_crc
_update_crc(crc_, c) ==
    LET cc == c % 256
        tmp == xor(crc_ \div 256, cc)
    IN xor(crc_ * 256, _tab[tmp % 256]) % 65536

RECURSIVE calculateb_from(_, _)
\* the loop of calculateb: for c in i: crc = _update_crc(crc, c)
calculateb_from(crc_, i) ==
    IF i = <<>> \/ crc_ < 0 THEN crc_
    ELSE calculateb_from(_update_crc(crc_, Head(i)), Tail(i))

\* calculateb
calculateb(i) == calculateb_from(PRESET, i)

\* a checksum that finds every byte string sound
calculate_zero(str) == [raised |-> "none", crc |-> 0]

\* calculate, called with bytes or a memoryview as packet.py calls it: the
\* items are integers and ord(c) raises TypeError at the first of them; no
\* item, no call of ord
calculate(str) ==
    IF str = <<>> THEN [raised |-> "none", crc |-> PRESET]
    ELSE [raised |-> "TypeError", crc |-> None]

---------------------------------------------------------------------------
(* Packets *)

\* PusTcPacket.ack: ack_flag in self.secondary_header.ack_flags
ack(packet, ack_flag) == (packet.ack_flags \div ack_flag) % 2 = 1

\* CcsdsSpacePacket.request_id of a TC built by PusTcPacket.create: version 0,
\* type TC, secondary header present, unsegmented
request_id(packet) ==
    LET packet_id == 0 * 8192 + 1 * 4096 + 1 * 2048 + packet.apid
        seq_ctrl == UNSEGMENTED * 16384 + packet.name
    IN to_bytes(packet_id, 2) \o to_bytes(seq_ctrl, 2)

\* PusTmPacket.create as the services call it
PusTmPacket(apid, seq_count, service_type, service_subtype, data) ==
    [apid |-> apid, seq_count |-> seq_count, service |-> service_type,
     subservice |-> service_subtype, source_data |-> data]

\* a report written with the count of the report before it
Write_count_not_taken(w, service_type, service_subtype, data) ==
    [out |-> Append(w.out, PusTmPacket(IdentApid, w.seqc, service_type,
                                       service_subtype, data)),
     seqc |-> w.seqc]

\* tm_output_stream.write(report), the report taking ident.seq_count()
Write(w, service_type, service_subtype, data) ==
    [out |-> Append(w.out, PusTmPacket(IdentApid, w.seqc, service_type,
                                       service_subtype, data)),
     seqc |-> (w.seqc + 1) % SeqCountModulus]

---------------------------------------------------------------------------
(* Identity: the packet sequence counter *)

\* _seq_count_generator: one turn of the loop, from the generator's seq_count
\* to the value it yields
_seq_count_generator_15bit(seq_count) == (seq_count + 1) % (2 * SeqCountModulus)

_seq_count_generator(seq_count) == (seq_count + 1) % SeqCountModulus

\* PusIdent.__init__: the generator before its first turn
PusIdent == [seq_count |-> -1, n |-> 0, ret |-> -1, prev |-> -1]

\* PusIdent.seq_count: next(self._seq_count_generator)
seq_count(g) ==
    [seq_count |-> _seq_count_generator(g.seq_count), n |-> g.n + 1,
     ret |-> _seq_count_generator(g.seq_count), prev |-> g.ret]

---------------------------------------------------------------------------
(* PUS 1: request verification *)

\* the report without the failure data
_generate_report_no_data(w, packet, subservice, success, failure_code, failure_data) ==
    LET code == IF failure_code = NoCode THEN ILLEGAL_APP_DATA ELSE failure_code
        payload == IF success THEN request_id(packet)
                   ELSE request_id(packet) \o to_bytes(code, FailureCodeSize)
    IN Write(w, REQUEST_VERIFICATION, subservice, payload)

\* RequestVerification._generate_report.  failure_code is NoCode for None (every
\* member of CommonErrorCode is a non-empty bytes object, hence true), and
\* failure_data is the empty string for None.
_generate_report(w, packet, subservice, success, failure_code, failure_data) ==
    LET code == IF failure_code = NoCode THEN ILLEGAL_APP_DATA ELSE failure_code
        payload == IF success THEN request_id(packet)
                   ELSE request_id(packet) \o to_bytes(code, FailureCodeSize)
                            \o failure_data
    IN Write(w, REQUEST_VERIFICATION, subservice, payload)

accept(w, packet, success, failure_code, failure_data) ==
    IF ~ack(packet, ACCEPTANCE) THEN w
    ELSE _generate_report(w, packet, IF success THEN 1 ELSE 2, success,
                          failure_code, failure_data)

\* start testing the acceptance flag
start_acceptance_flag(w, packet, success, failure_code, failure_data) ==
    IF ~ack(packet, ACCEPTANCE) THEN w
    ELSE _generate_report(w, packet, IF success THEN 3 ELSE 4, success,
                          failure_code, failure_data)

start(w, packet, success, failure_code, failure_data) ==
    IF ~ack(packet, START_OF_EXECUTION) THEN w
    ELSE _generate_report(w, packet, IF success THEN 3 ELSE 4, success,
                          failure_code, failure_data)

progress(w, packet, success, failure_code, failure_data) ==
    IF ~ack(packet, PROGRESS) THEN w
    ELSE _generate_report(w, packet, IF success THEN 5 ELSE 6, success,
                          failure_code, failure_data)

complete(w, packet, success, failure_code, failure_data) ==
    IF ~ack(packet, COMPLETION) THEN w
    ELSE _generate_report(w, packet, IF success THEN 7 ELSE 8, success,
                          failure_code, failure_data)

---------------------------------------------------------------------------
(* Return values of subservice handlers: a bool, an Enum member (its value  *)
(* in code), or anything else (kind "other": None, an int, ...).            *)

RetBool(b) == [kind |-> "bool", ok |-> b, code |-> NoCode]
RetEnum(c) == [kind |-> "enum", ok |-> FALSE, code |-> c]
RetOther == [kind |-> "other", ok |-> FALSE, code |-> NoCode]
\* the handler did not return: it raised the exception named
Raised(exc) == [kind |-> exc, ok |-> FALSE, code |-> NoCode]

---------------------------------------------------------------------------
(* PUS 17: test *)

connection_test(w, app_data) ==
    [w |-> Write(w, TEST, 2, <<>>), ret |-> RetBool(TRUE)]

---------------------------------------------------------------------------
(* PUS 8: function management.  The functions added to the service take no *)
(* arguments: function 0 returns True, function 1 returns False and        *)
(* function 2 returns None.                                                 *)

FunctionIds == {0, 1, 2}

callback(fid) ==
    CASE fid = 0 -> RetBool(TRUE)
      [] fid = 1 -> RetBool(FALSE)
      [] OTHER -> RetOther

_perform(w, app_data) ==
    LET fid == from_bytes(Prefix(app_data, FunctionIdSize))
        offset == FunctionIdSize
    IN [w |-> w,
        ret |-> IF fid \notin FunctionIds THEN RetEnum(PUS8_INVALID_FID)
                ELSE IF offset # Len(app_data) THEN RetEnum(PUS8_INVALID_ARGS)
                ELSE callback(fid)]

---------------------------------------------------------------------------
(* PUS 3: housekeeping.  A report table is a function from the structure   *)
(* ids present to the reports; a report keeps the ids of its parameters in *)
(* the order of its mapping.                                                *)

\* a report that is enabled whatever it is created with
Report_enabled(sid, collection_interval, enabled, params_in_report) ==
    [id |-> sid, collection_interval |-> collection_interval,
     enabled |-> TRUE, params |-> params_in_report]

\* Report.__init__ / ParamReport.__init__
Report(sid, collection_interval, enabled, params_in_report) ==
    [id |-> sid, collection_interval |-> collection_interval,
     enabled |-> enabled, params |-> params_in_report]

\* ParamReport.append: {**self._params, **params}, a known id keeping its
\* place and a new id going to the end
append(report, params) ==
    LET has(pid) == \E i \in DOMAIN report.params : report.params[i] = pid
        fresh(pid) == ~has(pid)
    IN [report EXCEPT !.params = @ \o SelectSeq(params, fresh)]

\* reports[sid] = report
Put(reports, sid, report) ==
    [k \in DOMAIN reports \cup {sid} |-> IF k = sid THEN report ELSE reports[k]]

\* del reports[sid]
Del(reports, sid) == [k \in DOMAIN reports \ {sid} |-> reports[k]]

\* reports = self._diagnostic_reports if diagnostic else self._housekeeping_reports
Table(h, diagnostic) == IF diagnostic THEN h.diagnostic ELSE h.housekeeping

SetTable(h, diagnostic, reports) ==
    IF diagnostic THEN [h EXCEPT !.diagnostic = reports]
    ELSE [h EXCEPT !.housekeeping = reports]

\* Housekeeping.__init__
Housekeeping(params) ==
    [params |-> params, housekeeping |-> << >>, diagnostic |-> << >>]

\* Housekeeping.add
add(h, sid, collection_interval, params_in_report, enabled, diagnostic) ==
    IF sid \in DOMAIN Table(h, diagnostic)
    THEN [h |-> h, ret |-> Raised("RuntimeError")]
    ELSE [h |-> SetTable(h, diagnostic,
                         Put(Table(h, diagnostic), sid,
                             Report(sid, collection_interval, enabled,
                                    params_in_report))),
          ret |-> RetOther]

\* Housekeeping._create_or_append_report
_create_or_append_report(h, app_data, append_, diagnostic) ==
    LET reports == Table(h, diagnostic)
        sid == from_bytes(Prefix(app_data, StructureIdSize))
        offset1 == StructureIdSize
        collection_interval ==
            from_bytes(Prefix(Suffix(app_data, offset1), CollectionIntervalSize))
        offset2 == IF append_ THEN offset1 ELSE offset1 + CollectionIntervalSize
        n1 == from_bytes(Prefix(Suffix(app_data, offset2), CountSize))
        offset3 == offset2 + CountSize
        size == n1 * ParamIdSize
        raw == Prefix(Suffix(app_data, offset3), size)
        param_ids == unpack(ParamIdSize, raw)
        known(pid) == pid \in h.params
        offset4 == offset3 + size
        nfa == from_bytes(Prefix(Suffix(app_data, offset4), CountSize))
        params == SelectSeq(param_ids, known)
        fail(ret) == [h |-> h, ret |-> ret]
    IN IF h.params = {} THEN fail(Raised("AttributeError"))
       ELSE IF append_ /\ sid \notin DOMAIN reports
       THEN fail(RetEnum(PUS3_SID_NOT_PRESENT))
       ELSE IF append_ /\ reports[sid].enabled
       THEN fail(RetEnum(PUS3_CANNOT_MODIFY_ENABLED_REPORT))
       ELSE IF ~append_ /\ sid \in DOMAIN reports
       THEN fail(RetEnum(PUS3_SID_ALREADY_PRESENT))
       ELSE IF Len(raw) # size THEN fail(RetEnum(INCOMPLETE))
       ELSE IF HasDuplicates(param_ids)
       THEN fail(RetEnum(PUS3_PARAM_DUPLICATION))
       ELSE IF nfa # 0 THEN fail(Raised("NotImplementedError"))
       ELSE [h |-> SetTable(h, diagnostic,
                            Put(reports, sid,
                                IF append_ THEN append(reports[sid], params)
                                ELSE Report(sid, collection_interval, FALSE,
                                            params))),
             ret |-> RetBool(TRUE)]

_delete_operation_enabled_too(report_id, reports) == Del(reports, report_id)

\* the operation of _delete_reports
_delete_operation(report_id, reports) ==
    IF ~reports[report_id].enabled THEN Del(reports, report_id) ELSE reports

\* the operation of _toggle_reports: report.enable() / report.disable()
_toggle_operation(report_id, reports, enable) ==
    [reports EXCEPT ![report_id].enabled = enable]

\* operation(report_id, reports, *argv) of _for_each_report_id
operation(op, report_id, reports) ==
    CASE op = "delete" -> _delete_operation(report_id, reports)
      [] op = "enable" -> _toggle_operation(report_id, reports, TRUE)
      [] op = "disable" -> _toggle_operation(report_id, reports, FALSE)

RECURSIVE for_each(_, _, _)
\* for report_id in report_ids: if report_id in reports: operation(...)
for_each(op, report_ids, reports) ==
    IF report_ids = <<>> THEN reports
    ELSE for_each(op, Tail(report_ids),
                  IF Head(report_ids) \in DOMAIN reports
                  THEN operation(op, Head(report_ids), reports)
                  ELSE reports)

\* Housekeeping._for_each_report_id
_for_each_report_id(h, app_data, diagnostic, op) ==
    LET num_reports == from_bytes(Prefix(app_data, CountSize))
        raw == Suffix(app_data, CountSize)
        report_ids == unpack(StructureIdSize, raw)
    IN IF Len(raw) # num_reports * StructureIdSize
       THEN [h |-> h, ret |-> RetEnum(INCOMPLETE)]
       ELSE [h |-> SetTable(h, diagnostic,
                            for_each(op, report_ids, Table(h, diagnostic))),
             ret |-> RetBool(TRUE)]

\* Housekeeping._delete_reports
_delete_reports(h, app_data, diagnostic) ==
    _for_each_report_id(h, app_data, diagnostic, "delete")

_toggle_reports_both_tables(h, app_data, diagnostic, enable) ==
    LET op == IF enable THEN "enable" ELSE "disable"
    IN _for_each_report_id(_for_each_report_id(h, app_data, FALSE, op).h,
                           app_data, TRUE, op)

\* Housekeeping._toggle_reports
_toggle_reports(h, app_data, diagnostic, enable) ==
    _for_each_report_id(h, app_data, diagnostic,
                        IF enable THEN "enable" ELSE "disable")

\* Housekeeping._modify_report_intervals: the table is searched for the
\* structure-id field object, never for its value, so no report is found
_modify_report_intervals(h, app_data, diagnostic) ==
    [h |-> h, ret |-> RetBool(TRUE)]

\* the value of the parameter with the id: the parameters of the service
\* are UInt16Parameter(pid + 3)
HkValue(pid) == pid + 3

\* ParamReport.__bytes__ of a housekeeping report: the report id, then the
\* value of every parameter of the report
report_bytes(report) ==
    to_bytes(report.id, ParamIdSize)
      \o pack(2, [i \in DOMAIN report.params |-> HkValue(report.params[i])])

\* Housekeeping.create_parameter_report and the write of it
create_parameter_report(w, report, diagnostic) ==
    Write(w, HOUSEKEEPING, IF diagnostic THEN 26 ELSE 25, report_bytes(report))

RECURSIVE request_each(_, _, _, _)
\* for report_id in report_ids: if report_id in reports: operation(...), the
\* operation of _request_reports
request_each(w, report_ids, reports, diagnostic) ==
    IF report_ids = <<>> THEN w
    ELSE request_each(IF Head(report_ids) \in DOMAIN reports
                      THEN create_parameter_report(w, reports[Head(report_ids)],
                                                   diagnostic)
                      ELSE w,
                      Tail(report_ids), reports, diagnostic)

\* Housekeeping._request_reports, through _for_each_report_id
_request_reports(h, w, app_data, diagnostic) ==
    LET num_reports == from_bytes(Prefix(app_data, CountSize))
        raw == Suffix(app_data, CountSize)
        report_ids == unpack(StructureIdSize, raw)
    IN IF Len(raw) # num_reports * StructureIdSize
       THEN [w |-> w, ret |-> RetEnum(INCOMPLETE)]
       ELSE [w |-> request_each(w, report_ids, Table(h, diagnostic), diagnostic),
             ret |-> RetBool(TRUE)]

\* self._subservices[subservice](app_data) of the housekeeping service
housekeeping_handler(h, subservice, app_data) ==
    CASE subservice = 1 -> _create_or_append_report(h, app_data, FALSE, FALSE)
      [] subservice = 2 -> _create_or_append_report(h, app_data, FALSE, TRUE)
      [] subservice = 3 -> _delete_reports(h, app_data, FALSE)
      [] subservice = 4 -> _delete_reports(h, app_data, TRUE)
      [] subservice = 5 -> _toggle_reports(h, app_data, FALSE, TRUE)
      [] subservice = 6 -> _toggle_reports(h, app_data, FALSE, FALSE)
      [] subservice = 7 -> _toggle_reports(h, app_data, TRUE, TRUE)
      [] subservice = 8 -> _toggle_reports(h, app_data, TRUE, FALSE)
      [] subservice = 29 -> _create_or_append_report(h, app_data, TRUE, FALSE)
      [] subservice = 30 -> _create_or_append_report(h, app_data, TRUE, TRUE)
      [] subservice = 31 -> _modify_report_intervals(h, app_data, FALSE)
      [] subservice = 32 -> _modify_report_intervals(h, app_data, TRUE)

---------------------------------------------------------------------------
(* Parameters and PUS 5: event reporting.  The service has one trigger     *)
(* parameter, a UInt32Parameter with parameter id 1; a subscriber of the   *)
(* parameter is the partial of _trigger that add() subscribed: the report  *)
(* (by its id), to_value and from_value.                                    *)

\* `not v` of a value that is None or an int
Falsy(v) == v = None \/ v = 0

\* EventReporting.__init__ and the trigger parameter UInt32Parameter(value)
EventReporting(value) == [value |-> value, events |-> <<>>, reports |-> <<>>]

\* eid in self._reports
Known(e, eid) == \E i \in DOMAIN e.reports : e.reports[i].id = eid

\* self._reports[eid]
ReportOf(e, eid) ==
    e.reports[CHOOSE i \in DOMAIN e.reports : e.reports[i].id = eid]

\* EventReporting.add
EventReporting_add(e, eid, severity, params_in_report, enabled, trig_param, to_value, from_value) ==
    IF Known(e, eid) THEN [e |-> e, raised |-> "RuntimeError"]
    ELSE [e |-> [e EXCEPT
                   !.reports = Append(@, [id |-> eid, severity |-> severity,
                                          enabled |-> enabled,
                                          params |-> params_in_report]),
                   !.events = IF trig_param
                              THEN Append(@, [eid |-> eid, to_value |-> to_value,
                                              from_value |-> from_value])
                              ELSE @],
          raised |-> "none"]

\* ParamReport.__bytes__: the report id, then the value of every parameter
\* of the report
bytes(e, report) ==
    to_bytes(report.id, ParamIdSize)
      \o (IF report.params = <<>> THEN <<>> ELSE to_bytes(e.value, UInt32Size))

dispatch_enabled_or_not(e, w, eid_or_report) ==
    IF eid_or_report.by = "id" /\ ~Known(e, eid_or_report.eid)
    THEN [w |-> w, raised |-> "RuntimeError"]
    ELSE LET report == ReportOf(e, eid_or_report.eid)
         IN [w |-> Write(w, EVENT_REPORTING, report.severity, bytes(e, report)),
             raised |-> "none"]

\* EventReporting.dispatch, called with a report id or a report
dispatch(e, w, eid_or_report) ==
    IF eid_or_report.by = "id" /\ ~Known(e, eid_or_report.eid)
    THEN [w |-> w, raised |-> "RuntimeError"]
    ELSE LET report == ReportOf(e, eid_or_report.eid)
         IN [w |-> IF ~report.enabled THEN w
                   ELSE Write(w, EVENT_REPORTING, report.severity,
                              bytes(e, report)),
             raised |-> "none"]

\* EventReporting._trigger
_trigger(e, w, report, to_value, from_value, old_value, new_value) ==
    LET d == dispatch(e, w, [by |-> "report", eid |-> report.id]).w
    IN IF ~report.enabled THEN w
       ELSE IF Falsy(to_value) /\ Falsy(from_value) THEN d
       ELSE IF Falsy(from_value)
       THEN IF to_value = new_value THEN d ELSE w
       ELSE IF from_value = old_value /\ to_value = new_value THEN d ELSE w

RECURSIVE notify(_, _, _, _, _)
\* for event in self._events: event(old_value=old_value, new_value=self._value)
notify(e, w, events, old_value, new_value) ==
    IF events = <<>> THEN w
    ELSE notify(e,
                _trigger(e, w, ReportOf(e, Head(events).eid), Head(events).to_value,
                         Head(events).from_value, old_value, new_value),
                Tail(events), old_value, new_value)

\* _UnsignedIntegerParameter._validate of the trigger parameter:
\* 0 <= value <= 2 ** (4 * 8) - 1, the bound taken in two halves of 16 bits
_validate(value) ==
    0 <= value /\ value \div 2 ^ (UInt32Size * 4) <= 2 ^ (UInt32Size * 4) - 1

value_setter_always_notify(e, w, new_value) ==
    IF ~_validate(new_value) THEN [e |-> e, w |-> w, raised |-> "ValueError"]
    ELSE [e |-> [e EXCEPT !.value = new_value],
          w |-> notify([e EXCEPT !.value = new_value], w, e.events, e.value,
                       new_value),
          raised |-> "none"]

\* Parameter.value (setter) of the trigger parameter
value_setter(e, w, new_value) ==
    IF e.value = new_value THEN [e |-> e, w |-> w, raised |-> "none"]
    ELSE IF ~_validate(new_value) THEN [e |-> e, w |-> w, raised |-> "ValueError"]
    ELSE [e |-> [e EXCEPT !.value = new_value],
          w |-> notify([e EXCEPT !.value = new_value], w, e.events, e.value,
                       new_value),
          raised |-> "none"]

\* ParamReport.enable / ParamReport.disable of the report with the id
set_enabled(e, eid, enabled) ==
    [e EXCEPT !.reports =
        [i \in DOMAIN @ |-> IF @[i].id = eid THEN [@[i] EXCEPT !.enabled = enabled]
                            ELSE @[i]]]

\* len(get_policy().event_reporting.count_type()): UInt8Parameter
EventCountSize == 1
\* len(get_policy().event_reporting.event_definition_id_type()): UInt16Parameter
EventIdSize == 2

RECURSIVE toggle_each(_, _, _)
\* the loop of _toggle: enable() or disable() of every listed report that
\* the service has
toggle_each(e, ids, enable) ==
    IF ids = <<>> THEN e
    ELSE toggle_each(IF Known(e, Head(ids)) THEN set_enabled(e, Head(ids), enable)
                     ELSE e,
                     Tail(ids), enable)

\* EventReporting._toggle: TC[5,5] and TC[5,6]
_toggle(e, app_data, enable) ==
    LET num_ids == from_bytes(Prefix(app_data, EventCountSize))
        rest == Suffix(app_data, EventCountSize)
        ids == unpack(EventIdSize, rest)
    IN IF Len(rest) # num_ids * EventIdSize THEN [e |-> e, ok |-> FALSE]
       ELSE IF ~(\A i \in DOMAIN ids : Known(e, ids[i])) THEN [e |-> e, ok |-> FALSE]
       ELSE [e |-> toggle_each(e, ids, enable), ok |-> TRUE]

RECURSIVE disabled_ids(_)
\* [report.id for eid, report in self._reports.items() if not report.enabled]
disabled_ids(reports) ==
    IF reports = <<>> THEN <<>>
    ELSE (IF Head(reports).enabled THEN <<>> ELSE <<Head(reports).id>>)
         \o disabled_ids(Tail(reports))

\* _report_disabled_events listing every report
_report_disabled_events_all(e, w, app_data) ==
    IF Len(app_data) # 0 THEN [w |-> w, ok |-> FALSE]
    ELSE [w |-> Write(w, 5, 8,
                      to_bytes(Len(e.reports), EventCountSize)
                      \o pack(EventIdSize, [i \in DOMAIN e.reports |-> e.reports[i].id])),
          ok |-> TRUE]

\* EventReporting._report_disabled_events: TC[5,7]
_report_disabled_events(e, w, app_data) ==
    IF Len(app_data) # 0 THEN [w |-> w, ok |-> FALSE]
    ELSE [w |-> Write(w, 5, 8,
                      to_bytes(Len(disabled_ids(e.reports)), EventCountSize)
                      \o pack(EventIdSize, disabled_ids(e.reports))),
          ok |-> TRUE]

---------------------------------------------------------------------------
(* Integer parameters.  A parameter is its type (signed or not, its size   *)
(* in bytes), its value and its subscribers in the order they subscribed;  *)
(* a subscriber is an event handler known by its name.                     *)

_validate_unsigned_inclusive(size, value) ==
    0 <= value /\ value <= 2 ^ (size * 8)

\* _UnsignedIntegerParameter._validate: FALSE when it raises ValueError
_validate_unsigned(size, value) ==
    0 <= value /\ value <= 2 ^ (size * 8) - 1

\* _SignedIntegerParameter._validate: FALSE when it raises ValueError
_validate_signed(size, value) ==
    -(2 ^ (size * 8 - 1)) <= value /\ value <= 2 ^ (size * 8 - 1) - 1

\* self._validate(value) of an integer parameter
validate(p, value) ==
    IF p.signed THEN _validate_signed(p.size, value)
    ELSE _validate_unsigned(p.size, value)

\* Parameter.__init__ of an integer parameter class, the initial value one
\* that _validate lets through
Parameter(signed, size, init_value) ==
    [signed |-> signed, size |-> size, value |-> init_value, events |-> <<>>]

\* Parameter.subscribe
subscribe(p, event_handler) == [p EXCEPT !.events = Append(@, event_handler)]

call_events_reversed(events, old_value, new_value) ==
    [i \in DOMAIN events |->
        [handler |-> events[Len(events) + 1 - i], old_value |-> old_value,
         new_value |-> new_value]]

\* for event in self._events: event(old_value=old_value, new_value=self._value):
\* the calls made, in order
call_events(events, old_value, new_value) ==
    [i \in DOMAIN events |->
        [handler |-> events[i], old_value |-> old_value, new_value |-> new_value]]

value_set_no_equal_test(p, new_value) ==
    IF ~validate(p, new_value)
    THEN [p |-> p, calls |-> <<>>, raised |-> "ValueError"]
    ELSE [p |-> [p EXCEPT !.value = new_value],
          calls |-> call_events(p.events, p.value, new_value),
          raised |-> "none"]

\* Parameter.value (setter): the parameter after it, the subscriber calls it
\* made before returning, the exception it raised
value_set(p, new_value) ==
    IF p.value = new_value THEN [p |-> p, calls |-> <<>>, raised |-> "none"]
    ELSE IF ~validate(p, new_value)
    THEN [p |-> p, calls |-> <<>>, raised |-> "ValueError"]
    ELSE [p |-> [p EXCEPT !.value = new_value],
          calls |-> call_events(p.events, p.value, new_value),
          raised |-> "none"]

---------------------------------------------------------------------------
(* The packet codec.  A packet is the record of its primary header, of the *)
(* secondary header of its class and of its payload; a field its class     *)
(* does not have is None.  A payload or a time that is None is NoneBytes,  *)
(* a time value is the bytes it serialises to (preamble, then seconds and  *)
(* fraction).  An operation that may raise returns the name of what it     *)
(* raised ("none" when it returned) beside its result.                     *)

_CCSDS_MAX_PACKET_SIZE == 65542
_CCSDS_HDR_SIZE == 6
_COMMON_SEC_HDR_SIZE == 3
_PEC_FIELD_SIZE == 2
_SOURCE_FIELD_SIZE == 2
_MSG_TYPE_COUNTER_FIELD_SIZE == 2
_DESTINATION_FIELD_SIZE == 2
_PACKET_PUS_VERSION_NUMBER == 2

\* a payload or a time that is None
NoneBytes == <<None>>

\* buffer[lo:hi] for 0 <= lo and 0 <= hi
slice(b, lo, hi) == SubSeq(b, lo + 1, IF Len(b) < hi THEN Len(b) ELSE hi)

\* (len(payload) if payload else 0)
payload_len(payload) == IF payload = NoneBytes THEN 0 ELSE Len(payload)

RECURSIVE and(_, _)
\* a & b for a, b >= 0
and(a, b) ==
    IF a = 0 \/ b = 0 THEN 0
    ELSE 2 * and(a \div 2, b \div 2) + ((a % 2) * (b % 2))

\* _validate_int_field for an int: FALSE when it raises InvalidPacketException
_validate_int_field(val, min_val, max_val) == min_val <= val /\ val <= max_val

\* CcsdsSpacePacket.__init__ and the __init__ of the class: the dataclass
\* defaults of the headers
NewPacket(cls, has_pec) ==
    [cls |-> cls, has_pec |-> has_pec,
     packet_version_number |-> 0, packet_type |-> "TM",
     secondary_header_flag |-> TRUE, apid |-> 0, seq_flags |-> UNSEGMENTED,
     seq_count_or_name |-> 0, data_length |-> 0, payload |-> NoneBytes,
     pus_version |-> _PACKET_PUS_VERSION_NUMBER,
     ack_flags |-> IF cls = "TC" THEN 0 ELSE None,
     spacecraft_time_ref_status |-> IF cls = "TM" THEN 0 ELSE None,
     service_type |-> 0, service_subtype |-> 0,
     source |-> None, msg_type_counter |-> None, destination |-> None,
     time |-> NoneBytes]

\* the packet no operation returned
NoPacket == [cls |-> "none"]

\* CcsdsSpacePacket.create, called by the create of a class with packet_type,
\* seq_count_or_name and secondary_header_length set
CcsdsSpacePacket_create(cls, kwargs, packet_type, seq_count_or_name, secondary_header_length) ==
    LET payload == IF kwargs.data = NoneBytes THEN <<>> ELSE kwargs.data
        data_size_except_source_data ==
            secondary_header_length
            + (IF kwargs.has_pec THEN _PEC_FIELD_SIZE ELSE 0)
        max_data_size == _CCSDS_MAX_PACKET_SIZE - _CCSDS_HDR_SIZE
                         - data_size_except_source_data
        given == kwargs.data_length # None /\ kwargs.data_length # 0
        derived == data_size_except_source_data + payload_len(payload)
        data_length == IF given THEN kwargs.data_length
                       ELSE IF derived > 0 THEN derived - 1 ELSE derived
        raised ==
            IF ~_validate_int_field(kwargs.packet_version_number, 0, 0)
               \/ ~_validate_int_field(kwargs.apid, 0, 2047)
               \/ ~_validate_int_field(seq_count_or_name, 0, 16383)
              THEN "InvalidPacketException"
            ELSE IF given
              THEN IF ~_validate_int_field(kwargs.data_length + 1,
                                           data_size_except_source_data,
                                           max_data_size)
                      \/ derived # kwargs.data_length + 1
                     THEN "InvalidPacketException" ELSE "none"
            ELSE IF derived > max_data_size THEN "ValueError" ELSE "none"
    IN [raised |-> raised,
        packet |-> IF raised # "none" THEN NoPacket
                   ELSE [NewPacket(cls, kwargs.has_pec) EXCEPT
                           !.packet_version_number = kwargs.packet_version_number,
                           !.packet_type = packet_type,
                           !.secondary_header_flag = kwargs.secondary_header_flag,
                           !.apid = kwargs.apid,
                           !.seq_flags = kwargs.seq_flags,
                           !.seq_count_or_name = seq_count_or_name,
                           !.payload = payload,
                           !.data_length = data_length]]

\* a keyword argument that is absent or None keeps the default of the header
or_default(val, default) == IF val = None THEN default ELSE val

\* PusTcPacket.create
PusTcPacket_create(kwargs) ==
    LET secondary_header_length ==
            IF kwargs.secondary_header_flag
              THEN _COMMON_SEC_HDR_SIZE
                   + (IF kwargs.source # None THEN _SOURCE_FIELD_SIZE ELSE 0)
              ELSE 0
        made == CcsdsSpacePacket_create("TC", kwargs, "TC", kwargs.name,
                                        secondary_header_length)
        pus_version == or_default(kwargs.pus_version, _PACKET_PUS_VERSION_NUMBER)
        ack_flags == or_default(kwargs.ack_flags, 0)
        service_type == or_default(kwargs.service_type, 0)
        service_subtype == or_default(kwargs.service_subtype, 0)
    IN IF made.raised # "none" \/ ~made.packet.secondary_header_flag THEN made
       ELSE IF ~_validate_int_field(pus_version, 0, 15)
               \/ ~_validate_int_field(ack_flags, 0, 15)
               \/ ~_validate_int_field(service_type, 0, 255)
               \/ ~_validate_int_field(service_subtype, 0, 255)
               \/ (kwargs.source # None
                   /\ ~_validate_int_field(kwargs.source, 0, 65535))
         THEN [raised |-> "InvalidPacketException", packet |-> NoPacket]
       ELSE [raised |-> "none",
             packet |-> [made.packet EXCEPT
                           !.pus_version = pus_version,
                           !.ack_flags = ack_flags,
                           !.service_type = service_type,
                           !.service_subtype = service_subtype,
                           !.source = kwargs.source]]

\* PusTmPacket.create; len(time) of a time that is None is a TypeError
PusTmPacket_create(kwargs) ==
    LET secondary_header_length ==
            IF kwargs.secondary_header_flag
              THEN _COMMON_SEC_HDR_SIZE
                   + (IF kwargs.msg_type_counter # None
                        THEN _MSG_TYPE_COUNTER_FIELD_SIZE ELSE 0)
                   + (IF kwargs.destination # None
                        THEN _DESTINATION_FIELD_SIZE ELSE 0)
                   + payload_len(kwargs.time)
              ELSE 0
        made == CcsdsSpacePacket_create("TM", kwargs, "TM", kwargs.seq_count,
                                        secondary_header_length)
        pus_version == or_default(kwargs.pus_version, _PACKET_PUS_VERSION_NUMBER)
        spacecraft_time_ref_status ==
            or_default(kwargs.spacecraft_time_ref_status, 0)
        service_type == or_default(kwargs.service_type, 0)
        service_subtype == or_default(kwargs.service_subtype, 0)
    IN IF kwargs.secondary_header_flag /\ kwargs.time = NoneBytes
         THEN [raised |-> "TypeError", packet |-> NoPacket]
       ELSE IF made.raised # "none" \/ ~made.packet.secondary_header_flag
         THEN made
       ELSE IF ~_validate_int_field(pus_version, 0, 15)
               \/ ~_validate_int_field(spacecraft_time_ref_status, 0, 15)
               \/ ~_validate_int_field(service_type, 0, 255)
               \/ ~_validate_int_field(service_subtype, 0, 255)
               \/ (kwargs.msg_type_counter # None
                   /\ ~_validate_int_field(kwargs.msg_type_counter, 0, 65535))
               \/ (kwargs.destination # None
                   /\ ~_validate_int_field(kwargs.destination, 0, 65535))
         THEN [raised |-> "InvalidPacketException", packet |-> NoPacket]
       ELSE [raised |-> "none",
             packet |-> [made.packet EXCEPT
                           !.pus_version = pus_version,
                           !.spacecraft_time_ref_status =
                               spacecraft_time_ref_status,
                           !.service_type = service_type,
                           !.service_subtype = service_subtype,
                           !.msg_type_counter = kwargs.msg_type_counter,
                           !.destination = kwargs.destination,
                           !.time = kwargs.time]]

\* the create of the class of the keyword arguments
create(kwargs) ==
    IF kwargs.cls = "TC" THEN PusTcPacket_create(kwargs)
    ELSE PusTmPacket_create(kwargs)

\* len(packet): CcsdsSpacePacket.__len__, then the __len__ of the class;
\* None when len(time) of a time that is None raises TypeError
len(p) ==
    LET size == _CCSDS_HDR_SIZE + payload_len(p.payload)
                + (IF p.has_pec THEN 2 ELSE 0)
    IN IF ~p.secondary_header_flag THEN size
       ELSE IF p.cls = "TC"
         THEN size + _COMMON_SEC_HDR_SIZE
              + (IF p.source # None THEN _SOURCE_FIELD_SIZE ELSE 0)
       ELSE IF p.time = NoneBytes THEN None
       ELSE size + _COMMON_SEC_HDR_SIZE
            + (IF p.msg_type_counter # None
                 THEN _MSG_TYPE_COUNTER_FIELD_SIZE ELSE 0)
            + (IF p.destination # None THEN _DESTINATION_FIELD_SIZE ELSE 0)
            + Len(p.time)

\* the six bytes of the primary header (_CCSDS_HDR_STRUCT.pack); the fields
\* of a packet fit their bits, so the ors of the code are sums
ccsds_header(p) ==
    LET packet_id == p.packet_version_number * 8192
                     + (IF p.packet_type = "TC" THEN 1 ELSE 0) * 4096
                     + (IF p.secondary_header_flag THEN 1 ELSE 0) * 2048
                     + p.apid
        seq_ctrl == p.seq_flags * 16384 + p.seq_count_or_name
    IN to_bytes(packet_id, 2) \o to_bytes(seq_ctrl, 2)
       \o to_bytes(p.data_length, 2)

\* request_id with the sequence flags left out of the sequence control
CcsdsSpacePacket_request_id_no_flags(p) ==
    LET packet_id == p.packet_version_number * 8192
                     + (IF p.packet_type = "TC" THEN 1 ELSE 0) * 4096
                     + (IF p.secondary_header_flag THEN 1 ELSE 0) * 2048
                     + p.apid
    IN to_bytes(packet_id, 2) \o to_bytes(p.seq_count_or_name, 2)

\* CcsdsSpacePacket.request_id: struct.pack('>HH', packet_id, seq_ctrl)
CcsdsSpacePacket_request_id(p) ==
    LET packet_id == p.packet_version_number * 8192
                     + (IF p.packet_type = "TC" THEN 1 ELSE 0) * 4096
                     + (IF p.secondary_header_flag THEN 1 ELSE 0) * 2048
                     + p.apid
        seq_ctrl == p.seq_flags * 16384 + p.seq_count_or_name
    IN to_bytes(packet_id, 2) \o to_bytes(seq_ctrl, 2)

\* CcsdsSpacePacket.serialize: bytes + None is a TypeError
CcsdsSpacePacket_serialize(p) ==
    IF ~p.secondary_header_flag /\ p.payload = NoneBytes
      THEN [raised |-> "TypeError", bytes |-> <<>>]
    ELSE [raised |-> "none",
          bytes |-> ccsds_header(p)
                    \o (IF p.secondary_header_flag THEN <<>> ELSE p.payload)]

\* the packet error control of serialize: the checksum of the packet is
\* what crc_ccitt_calculate, that is calculate, makes of its bytes
with_pec(p, packet_without_pec) ==
    LET pec == calculate(packet_without_pec)
    IN IF ~p.has_pec THEN [raised |-> "none", bytes |-> packet_without_pec]
       ELSE IF pec.raised # "none" THEN [raised |-> pec.raised, bytes |-> <<>>]
       ELSE [raised |-> "none",
             bytes |-> packet_without_pec \o to_bytes(pec.crc, _PEC_FIELD_SIZE)]

\* an optional two-byte field of a secondary header
optional_field(val) == IF val # None THEN to_bytes(val, 2) ELSE <<>>

\* PusTcPacket.serialize
PusTcPacket_serialize(p) ==
    LET ccsds == CcsdsSpacePacket_serialize(p)
        ccsds_sec_header ==
            <<p.pus_version * 16 + p.ack_flags, p.service_type,
              p.service_subtype>> \o optional_field(p.source)
    IN IF ccsds.raised # "none" THEN ccsds
       ELSE IF ~p.secondary_header_flag THEN with_pec(p, ccsds.bytes)
       ELSE IF p.payload = NoneBytes
         THEN [raised |-> "TypeError", bytes |-> <<>>]
       ELSE with_pec(p, ccsds.bytes \o ccsds_sec_header \o p.payload)

\* PusTmPacket.serialize: the secondary header is packed whatever the
\* secondary header flag; None << 4, bytes(None) and bytes + None are
\* TypeErrors
PusTmPacket_serialize(p) ==
    LET ccsds == CcsdsSpacePacket_serialize(p)
    IN IF ccsds.raised # "none" THEN ccsds
       ELSE IF p.pus_version = None \/ p.spacecraft_time_ref_status = None
               \/ p.time = NoneBytes \/ p.payload = NoneBytes
         THEN [raised |-> "TypeError", bytes |-> <<>>]
       ELSE with_pec(p, ccsds.bytes
                        \o <<p.pus_version * 16 + p.spacecraft_time_ref_status,
                             p.service_type, p.service_subtype>>
                        \o optional_field(p.msg_type_counter)
                        \o optional_field(p.destination)
                        \o p.time \o p.payload)

\* packet.serialize() of the class of the packet
serialize(p) ==
    IF p.cls = "TC" THEN PusTcPacket_serialize(p) ELSE PusTmPacket_serialize(p)

\* CcsdsSpacePacket.deserialize: the fields of the primary header;
\* unpack_from of fewer than six bytes is a struct.error
CcsdsSpacePacket_deserialize_no_size_test(buffer, has_pec, validate_pec) ==
    LET packet_id == from_bytes(slice(buffer, 0, 2))
        seq_ctrl == from_bytes(slice(buffer, 2, 4))
        data_length == from_bytes(slice(buffer, 4, 6))
        packet_size == _CCSDS_HDR_SIZE + data_length + 1
        pec == calculate(slice(buffer, 0, packet_size))
    IN [raised |->
            IF Len(buffer) < _CCSDS_HDR_SIZE THEN "struct.error"
            ELSE IF packet_size > _CCSDS_MAX_PACKET_SIZE
              THEN "InvalidPacketException"
            ELSE IF has_pec /\ validate_pec /\ pec.raised # "none"
              THEN pec.raised
            ELSE IF has_pec /\ validate_pec /\ pec.crc # 0
              THEN "CrcException"
            ELSE "none",
        packet_version_number |-> (packet_id \div 8192) % 8,
        packet_type |-> IF (packet_id \div 4096) % 2 = 1 THEN "TC" ELSE "TM",
        secondary_header_flag |-> (packet_id \div 2048) % 2 = 1,
        apid |-> packet_id % 2048,
        seq_flags |-> (seq_ctrl \div 16384) % 4,
        seq_count_or_name |-> seq_ctrl % 16384,
        data_length |-> data_length]

CcsdsSpacePacket_deserialize(buffer, has_pec, validate_pec) ==
    LET packet_id == from_bytes(slice(buffer, 0, 2))
        seq_ctrl == from_bytes(slice(buffer, 2, 4))
        data_length == from_bytes(slice(buffer, 4, 6))
        packet_size == _CCSDS_HDR_SIZE + data_length + 1
        pec == calculate(slice(buffer, 0, packet_size))
    IN [raised |->
            IF Len(buffer) < _CCSDS_HDR_SIZE THEN "struct.error"
            ELSE IF packet_size > Len(buffer) THEN "IncompletePacketException"
            ELSE IF packet_size > _CCSDS_MAX_PACKET_SIZE
              THEN "InvalidPacketException"
            ELSE IF has_pec /\ validate_pec /\ pec.raised # "none"
              THEN pec.raised
            ELSE IF has_pec /\ validate_pec /\ pec.crc # 0
              THEN "CrcException"
            ELSE "none",
        packet_version_number |-> (packet_id \div 8192) % 8,
        packet_type |-> IF (packet_id \div 4096) % 2 = 1 THEN "TC" ELSE "TM",
        secondary_header_flag |-> (packet_id \div 2048) % 2 = 1,
        apid |-> packet_id % 2048,
        seq_flags |-> (seq_ctrl \div 16384) % 4,
        seq_count_or_name |-> seq_ctrl % 16384,
        data_length |-> data_length]

\* the packet deserialize builds without validation: cls(has_pec) with every
\* field assigned as parsed
Raw(cls, has_pec, header, sec, payload) ==
    [NewPacket(cls, has_pec) EXCEPT
       !.packet_version_number = header.packet_version_number,
       !.packet_type = header.packet_type,
       !.secondary_header_flag = header.secondary_header_flag,
       !.apid = header.apid,
       !.seq_flags = header.seq_flags,
       !.seq_count_or_name = header.seq_count_or_name,
       !.data_length = header.data_length,
       !.payload = payload,
       !.pus_version = sec.pus_version,
       !.ack_flags = sec.ack_flags,
       !.spacecraft_time_ref_status = sec.spacecraft_time_ref_status,
       !.service_type = sec.service_type,
       !.service_subtype = sec.service_subtype,
       !.source = sec.source,
       !.msg_type_counter = sec.msg_type_counter,
       !.destination = sec.destination,
       !.time = sec.time]

\* the keyword arguments deserialize gives to create
Parsed(cls, has_pec, header, sec, payload) ==
    [cls |-> cls, has_pec |-> has_pec,
     packet_version_number |-> header.packet_version_number,
     secondary_header_flag |-> header.secondary_header_flag,
     apid |-> header.apid, seq_flags |-> header.seq_flags,
     name |-> header.seq_count_or_name,
     seq_count |-> header.seq_count_or_name,
     data_length |-> header.data_length,
     pus_version |-> sec.pus_version, ack_flags |-> sec.ack_flags,
     spacecraft_time_ref_status |-> sec.spacecraft_time_ref_status,
     service_type |-> sec.service_type,
     service_subtype |-> sec.service_subtype,
     source |-> sec.source, msg_type_counter |-> sec.msg_type_counter,
     destination |-> sec.destination, time |-> sec.time, data |-> payload]

\* the secondary header of a packet without one, as deserialize parses it
NoSecondaryHeader ==
    [pus_version |-> None, ack_flags |-> None,
     spacecraft_time_ref_status |-> None, service_type |-> None,
     service_subtype |-> None, source |-> None, msg_type_counter |-> None,
     destination |-> None, time |-> NoneBytes]

\* the user data field: bytes(buffer[offset:offset + n]) if n else None
user_data(buffer, offset, n) ==
    IF n = 0 THEN NoneBytes
    ELSE IF n < 0 THEN <<>>
    ELSE slice(buffer, offset, offset + n)

\* the end of deserialize: the validating path through create, or the raw
\* assignment of the fields
build(cls, has_pec, header, sec, payload, validate_fields) ==
    IF validate_fields THEN create(Parsed(cls, has_pec, header, sec, payload))
    ELSE [raised |-> "none",
          packet |-> Raw(cls, has_pec, header, sec, payload)]

\* PusTcPacket.deserialize
PusTcPacket_deserialize(buffer, has_pec, validate_pec, has_source_field, validate_fields) ==
    LET header == CcsdsSpacePacket_deserialize(buffer, has_pec, validate_pec)
        data_field_except_source_length ==
            (IF header.secondary_header_flag
               THEN _COMMON_SEC_HDR_SIZE
                    + (IF has_source_field THEN _SOURCE_FIELD_SIZE ELSE 0)
               ELSE 0)
            + (IF has_pec THEN 2 ELSE 0)
        offset == _CCSDS_HDR_SIZE + _COMMON_SEC_HDR_SIZE
        tmp == buffer[_CCSDS_HDR_SIZE + 1]
        sec == IF header.secondary_header_flag
                 THEN [NoSecondaryHeader EXCEPT
                         !.pus_version = (tmp \div 16) % 16,
                         !.ack_flags = tmp % 16,
                         !.service_type = buffer[_CCSDS_HDR_SIZE + 2],
                         !.service_subtype = buffer[_CCSDS_HDR_SIZE + 3],
                         !.source =
                             IF has_source_field
                               THEN from_bytes(slice(buffer, offset,
                                               offset + _SOURCE_FIELD_SIZE))
                               ELSE None]
                 ELSE NoSecondaryHeader
        app_data_length == header.data_length + 1
                           - data_field_except_source_length
        app_data ==
            user_data(buffer,
                      _CCSDS_HDR_SIZE + data_field_except_source_length
                      - (IF has_pec THEN 2 ELSE 0),
                      app_data_length)
    IN IF header.raised # "none"
         THEN [raised |-> header.raised, packet |-> NoPacket]
       ELSE IF Len(buffer) < _CCSDS_HDR_SIZE + data_field_except_source_length
         THEN [raised |-> "IncompletePacketException", packet |-> NoPacket]
       ELSE build("TC", has_pec, header, sec, app_data, validate_fields)

\* the size of the preamble of a time value: one byte, two when the
\* extension bit of the first is set
preamble_size(time) == 1 + time[1] \div 128

\* CucTime.from_bytes: the expected time keeps its preamble and takes its
\* seconds and fraction from the buffer
from_bytes_time(cuc_time, buffer) ==
    SubSeq(cuc_time, 1, preamble_size(cuc_time))
    \o slice(buffer, preamble_size(cuc_time), Len(cuc_time))

\* CucTime.deserialize with a preamble, the lengths of the time field as
\* _TimeFormat.deserialize reads them: NoneBytes when it raises ValueError
CucTime_deserialize(buffer) ==
    LET octet1 == buffer[1]
        p_field_extension == octet1 \div 128
        octet2 == buffer[2]
        basic_time_unit_length ==
            ((octet1 \div 4) % 4) + 1
            + (IF p_field_extension = 1 THEN (octet2 \div 32) % 4 ELSE 0)
        frac_time_unit_length ==
            and(octet1,
                3 + (IF p_field_extension = 1 THEN (octet2 \div 4) % 8 ELSE 0))
        size == 1 + p_field_extension + basic_time_unit_length
                + frac_time_unit_length
    IN IF Len(buffer) < 2 THEN NoneBytes
       ELSE IF Len(buffer) < size THEN NoneBytes
       ELSE slice(buffer, 0, size)

\* PusTmPacket.deserialize; cuc_time is the expected time or NoneBytes
PusTmPacket_deserialize(buffer, has_pec, validate_pec, cuc_time, has_type_counter_field, has_destination_field, validate_fields) ==
    LET header == CcsdsSpacePacket_deserialize(buffer, has_pec, validate_pec)
        expected_length ==
            IF header.secondary_header_flag
              THEN _COMMON_SEC_HDR_SIZE
                   + (IF has_type_counter_field THEN 2 ELSE 0)
                   + (IF has_destination_field THEN 2 ELSE 0)
                   + payload_len(cuc_time)
                   + (IF has_pec THEN 2 ELSE 0)
              ELSE IF has_pec THEN 2 ELSE 0
        counter_offset == _CCSDS_HDR_SIZE + _COMMON_SEC_HDR_SIZE
        destination_offset ==
            counter_offset
            + (IF has_type_counter_field THEN _MSG_TYPE_COUNTER_FIELD_SIZE
               ELSE 0)
        time_offset ==
            destination_offset
            + (IF has_destination_field THEN _DESTINATION_FIELD_SIZE ELSE 0)
        time == IF cuc_time # NoneBytes /\ cuc_time # <<>>
                  THEN from_bytes_time(cuc_time,
                                       slice(buffer, time_offset, Len(buffer)))
                  ELSE CucTime_deserialize(slice(buffer, time_offset,
                                                 Len(buffer)))
        data_field_except_source_length ==
            IF header.secondary_header_flag
                 /\ (cuc_time = NoneBytes \/ cuc_time = <<>>)
              THEN expected_length + payload_len(time)
              ELSE expected_length
        tmp == buffer[_CCSDS_HDR_SIZE + 1]
        sec == IF header.secondary_header_flag
                 THEN [NoSecondaryHeader EXCEPT
                         !.pus_version = (tmp \div 16) % 16,
                         !.spacecraft_time_ref_status = tmp % 16,
                         !.service_type = buffer[_CCSDS_HDR_SIZE + 2],
                         !.service_subtype = buffer[_CCSDS_HDR_SIZE + 3],
                         !.msg_type_counter =
                             IF has_type_counter_field
                               THEN from_bytes(slice(buffer, counter_offset,
                                                     counter_offset + 2))
                               ELSE None,
                         !.destination =
                             IF has_destination_field
                               THEN from_bytes(slice(buffer, destination_offset,
                                                     destination_offset + 2))
                               ELSE None,
                         !.time = time]
                 ELSE NoSecondaryHeader
        offset == IF header.secondary_header_flag
                    THEN time_offset + payload_len(time)
                    ELSE _CCSDS_HDR_SIZE
        source_data ==
            user_data(buffer, offset,
                      header.data_length + 1 - data_field_except_source_length)
    IN IF header.raised # "none"
         THEN [raised |-> header.raised, packet |-> NoPacket]
       ELSE IF Len(buffer) < _CCSDS_HDR_SIZE + expected_length
         THEN [raised |-> "IncompletePacketException", packet |-> NoPacket]
       ELSE IF header.secondary_header_flag /\ time = NoneBytes
         THEN [raised |-> "IncompletePacketException", packet |-> NoPacket]
       ELSE build("TM", has_pec, header, sec, source_data, validate_fields)

\* the expectations of deserialize, the ones of the other class ignored
deserialize(cls, buffer, exp) ==
    IF cls = "TC"
      THEN PusTcPacket_deserialize(buffer, exp.has_pec, exp.validate_pec,
                                   exp.has_source_field, exp.validate_fields)
    ELSE PusTmPacket_deserialize(buffer, exp.has_pec, exp.validate_pec,
                                 exp.cuc_time, exp.has_type_counter_field,
                                 exp.has_destination_field,
                                 exp.validate_fields)

---------------------------------------------------------------------------
(* The policy.  The module keeps the nested classes of PusPolicy, which    *)
(* hold the field types as class attributes, and _pus_policy; a policy     *)
(* instance keeps, for each service, a reference to the nested class, and  *)
(* its own PusTcPacket factory.  Instances are known by the order they     *)
(* were made in, the first being the PusPolicy() the module makes.          *)

\* PusPolicy.__init__: self.request_verification = self.RequestVerification
PusPolicy(pus_version) ==
    [request_verification |-> "RequestVerification", pus_version |-> pus_version]

\* the module after import: _pus_policy = PusPolicy()
puslib ==
    [classes |-> [RequestVerification |-> [failure_code_type |-> "UInt8Parameter"]],
     instances |-> <<PusPolicy(1)>>,
     _pus_policy |-> 1]

\* instance.request_verification.failure_code_type = failure_code_type
configure(m, i, failure_code_type) ==
    [m EXCEPT !.classes[m.instances[i].request_verification].failure_code_type =
                  failure_code_type]

\* Policy(): a subclass of PusPolicy whose __init__ calls super().__init__()
\* and assigns self.request_verification.failure_code_type, and whose
\* PusTcPacket has its own pus_version
Policy(m, failure_code_type, pus_version) ==
    configure([m EXCEPT !.instances = Append(@, PusPolicy(pus_version))],
              Len(m.instances) + 1, failure_code_type)

\* set_policy(policy_)
set_policy(m, i) == [m EXCEPT !._pus_policy = i]

\* get_policy()
get_policy(m) == m._pus_policy

\* get_policy().request_verification.failure_code_type
failure_code_type(m) ==
    m.classes[m.instances[get_policy(m)].request_verification].failure_code_type

\* the components outside the dispatch and stage specifications, untouched
IdleExt ==
    /\ gen = PusIdent
    /\ policy = puslib
    /\ hk = Housekeeping({})
    /\ ev = EventReporting(0)
    /\ par = Parameter(FALSE, 1, 0)
    /\ pkt = <<>>
    /\ crc = <<>>

---------------------------------------------------------------------------
(* The generic service *)

\* the services that own a queue, and the subservices each registers
QueuedServices == {FUNCTION_MANAGEMENT, TEST}

_subservices(s) ==
    CASE s = FUNCTION_MANAGEMENT -> {1}
      [] s = TEST -> {1}
      [] OTHER -> {}

\* self._subservices[tc_packet.subservice](app_data=tc_packet.app_data)
subservice_handler(s, w, app_data) ==
    IF s = TEST THEN connection_test(w, app_data) ELSE _perform(w, app_data)

\* enqueue without the test of the APID
enqueue_any_apid(s, q, tc_packet) ==
    IF /\ tc_packet.service = s
       /\ tc_packet.subservice \in _subservices(s)
    THEN Append(q, tc_packet)
    ELSE q

\* PusService.enqueue: the queue of service s after enqueue(tc_packet)
enqueue(s, q, tc_packet) ==
    IF /\ tc_packet.apid = IdentApid
       /\ tc_packet.service = s
       /\ tc_packet.subservice \in _subservices(s)
    THEN Append(q, tc_packet)
    ELSE q

\* the queue handing out its newest command
queue_get_lifo(q) == [item |-> q[Len(q)], rest |-> SubSeq(q, 1, Len(q) - 1)]

\* self._incoming_tc_queue.get()
queue_get(q) == [item |-> Head(q), rest |-> Tail(q)]

\* complete called without the outcome: its defaults report a success
accept_and_complete_default(w, tc_packet, success, pus_error_code) ==
    complete(accept(w, tc_packet, success, pus_error_code, <<>>),
             tc_packet, TRUE, NoCode, <<>>)

\* the loop reporting the start of execution as well
accept_and_complete_start(w, tc_packet, success, pus_error_code) ==
    complete(start(accept(w, tc_packet, success, pus_error_code, <<>>),
                   tc_packet, success, pus_error_code, <<>>),
             tc_packet, success, pus_error_code, <<>>)

\* the failure code not handed on
accept_and_complete_no_code(w, tc_packet, success, pus_error_code) ==
    complete(accept(w, tc_packet, success, NoCode, <<>>),
             tc_packet, success, NoCode, <<>>)

\* self._pus_service_1.accept(...) and then self._pus_service_1.complete(...)
accept_and_complete(w, tc_packet, success, pus_error_code) ==
    complete(accept(w, tc_packet, success, pus_error_code, <<>>),
             tc_packet, success, pus_error_code, <<>>)

\* the acceptance reported before the handler is called
process_one_accept_first(s, w, tc_packet) ==
    LET w0 == accept(w, tc_packet, TRUE, NoCode, <<>>)
        h == subservice_handler(s, w0, tc_packet.app_data)
        success == IF h.ret.kind = "bool" THEN h.ret.ok ELSE FALSE
        pus_error_code == IF h.ret.kind = "enum" THEN h.ret.code ELSE NoCode
        w2 == complete(h.w, tc_packet, success, pus_error_code, <<>>)
    IN IF h.ret.kind = "other"
       THEN [w |-> h.w, raised |-> "TypeError",
             call |-> [tc |-> tc_packet, ret |-> h.ret,
                       at |-> Len(w.out), end |-> Len(h.w.out)]]
       ELSE [w |-> w2, raised |-> "none",
             call |-> [tc |-> tc_packet, ret |-> h.ret,
                       at |-> Len(w.out), end |-> Len(w2.out)]]

\* One iteration of the loop of PusService.process on the command tc_packet:
\* the handler call, the type test of its return value, accept and complete.
\* call is the observer's record: the command, what the handler returned and
\* the length of the output stream before and after the iteration.
process_one(s, w, tc_packet) ==
    LET h == subservice_handler(s, w, tc_packet.app_data)
        success == IF h.ret.kind = "bool" THEN h.ret.ok ELSE FALSE
        pus_error_code == IF h.ret.kind = "enum" THEN h.ret.code ELSE NoCode
        w2 == accept_and_complete(h.w, tc_packet, success, pus_error_code)
    IN IF h.ret.kind = "other"
       THEN [w |-> h.w, raised |-> "TypeError",
             call |-> [tc |-> tc_packet, ret |-> h.ret,
                       at |-> Len(w.out), end |-> Len(h.w.out)]]
       ELSE [w |-> w2, raised |-> "none",
             call |-> [tc |-> tc_packet, ret |-> h.ret,
                       at |-> Len(w.out), end |-> Len(w2.out)]]

RECURSIVE process(_, _, _, _)
\* PusService.process: the loop until the queue is empty or an exception
\* leaves it.  cl is the observer's log of handler invocations.
process(s, q, w, cl) ==
    IF q = <<>> THEN [queue |-> q, w |-> w, calls |-> cl, raised |-> "none"]
    ELSE LET g == queue_get(q)
             r == process_one(s, w, g.item)
         IN IF r.raised # "none"
            THEN [queue |-> g.rest, w |-> r.w, calls |-> Append(cl, r.call),
                  raised |-> r.raised]
            ELSE process(s, g.rest, r.w, Append(cl, r.call))

---------------------------------------------------------------------------
(* The application process, created with function_management and test     *)

_pus_services == {REQUEST_VERIFICATION, FUNCTION_MANAGEMENT, TEST}

\* Process.forward: the exception it raises before any queue is touched
forward_raises(tc_packet) ==
    IF tc_packet.apid # IdentApid THEN "TcPacketRoutingError"
    ELSE IF tc_packet.service \notin _pus_services THEN "TcPacketRoutingError"
    ELSE IF tc_packet.service = REQUEST_VERIFICATION THEN "RuntimeError"
    ELSE "none"

---------------------------------------------------------------------------
(* Inputs *)

TcApids == {IdentApid, IdentApid + 1}
TcServices == {REQUEST_VERIFICATION, HOUSEKEEPING, FUNCTION_MANAGEMENT, TEST}
TcSubservices == {1, 2}
TcNames == {3}
TcAckFlags == {NONE, ACCEPTANCE, COMPLETION, AllAckFlags}
AppDatas == {<<>>, <<0, 0>>, <<0, 1>>, <<0, 2>>, <<0, 3>>}

TcPacket(a, n, f, s, ss, d) ==
    [apid |-> a, name |-> n, ack_flags |-> f, service |-> s,
     subservice |-> ss, app_data |-> d]

\* PusService.enqueue admits tc on the service it addresses
Routed(t) ==
    /\ t.apid = IdentApid
    /\ t.service \in QueuedServices
    /\ t.subservice \in _subservices(t.service)

\* The telecommands submitted.  Only function requests carry application
\* data, and a command that no service admits varies in its routing fields
\* only: nothing reads its other fields.
TCs ==
    {t \in [apid : TcApids, name : TcNames, ack_flags : TcAckFlags,
            service : TcServices, subservice : TcSubservices,
            app_data : AppDatas] :
        /\ t.service = FUNCTION_MANAGEMENT \/ t.app_data = <<>>
        /\ Routed(t) \/ (t.ack_flags = AllAckFlags /\ t.app_data = <<>>)}

\* the telecommands handed to the stage operations
RvTCs ==
    {TcPacket(a, n, f, FUNCTION_MANAGEMENT, 1, <<>>) :
        a \in TcApids, n \in {0, 3}, f \in 0..AllAckFlags}

RvArgs ==
    {[tc |-> t, success |-> TRUE, failure_code |-> NoCode, failure_data |-> <<>>] :
        t \in RvTCs}
    \cup
    [tc : RvTCs, success : {FALSE},
     failure_code : {NoCode, ILLEGAL_APID, PUS8_INVALID_FID},
     failure_data : {<<>>, <<171, 205>>}]

NoRv == [tc |-> TcPacket(IdentApid, 0, NONE, FUNCTION_MANAGEMENT, 1, <<>>),
         success |-> TRUE, failure_code |-> NoCode, failure_data |-> <<>>]

-------------------------------------------------------------------------------------------------------------------------------------------------
(* The dispatch specification: commands are enqueued on the services or    *)
(* forwarded through the process, and the queues are processed.            *)

World == [out |-> out, seqc |-> seqc]

Submitted == Len(calls) + Len(queue[FUNCTION_MANAGEMENT]) + Len(queue[TEST])

\* the observer's record of an operation: the service it was called on, the
\* exception it raised, whether it added a command to a queue, whether the
\* command met the three admission conditions, and the length of the output
\* stream when it was called
Op(name, s, raised, changed, elig) ==
    [op |-> name, svc |-> s, raised |-> raised, changed |-> changed,
     elig |-> elig, outlen |-> Len(out)]

Eligible(s, tc) ==
    /\ tc.apid = IdentApid
    /\ tc.service = s
    /\ tc.subservice \in _subservices(s)

\* the observer's log of the commands a queue took
Admit(s, q, tc) ==
    IF q # queue[s] THEN [admitted EXCEPT ![s] = Append(@, tc)] ELSE admitted

Init ==
    /\ queue = [s \in QueuedServices |-> <<>>]
    /\ out = <<>>
    /\ seqc = 0
    /\ admitted = [s \in QueuedServices |-> <<>>]
    /\ calls = <<>>
    /\ stages = <<>>
    /\ last = Op("init", 0, "none", FALSE, FALSE)
    /\ rv = NoRv
    /\ IdleExt

\* service s: enqueue(tc)
Enqueue(s, tc) ==
    /\ Submitted < MaxCmds
    /\ queue' = [queue EXCEPT ![s] = enqueue(s, @, tc)]
    /\ admitted' = Admit(s, enqueue(s, queue[s], tc), tc)
    /\ last' = Op("enqueue", s, "none", enqueue(s, queue[s], tc) # queue[s],
                  Eligible(s, tc))
    /\ UNCHANGED <<out, seqc, calls, stages, rv, ext>>

\* service s: process(), called when a command is queued
Process(s) ==
    LET r == process(s, queue[s], World, calls)
    IN /\ queue[s] # <<>>
       /\ queue' = [queue EXCEPT ![s] = r.queue]
       /\ out' = r.w.out
       /\ seqc' = r.w.seqc
       /\ calls' = r.calls
       /\ last' = Op("process", s, r.raised, FALSE, FALSE)
       /\ UNCHANGED <<admitted, stages, rv, ext>>

\* Process.forward(tc)
Forward(tc) ==
    /\ Submitted < MaxCmds
    /\ IF forward_raises(tc) # "none"
       THEN /\ last' = Op("forward", 0, forward_raises(tc), FALSE, FALSE)
            /\ UNCHANGED <<queue, out, seqc, admitted, calls>>
       ELSE LET s == tc.service
                q == enqueue(s, queue[s], tc)
                r == process(s, q, World, calls)
            IN /\ queue' = [queue EXCEPT ![s] = r.queue]
               /\ out' = r.w.out
               /\ seqc' = r.w.seqc
               /\ admitted' = Admit(s, q, tc)
               /\ calls' = r.calls
               /\ last' = Op("forward", s, r.raised, q # queue[s], Eligible(s, tc))
    /\ UNCHANGED <<stages, rv, ext>>

Next ==
    \/ \E s \in QueuedServices, tc \in TCs : Enqueue(s, tc)
    \/ \E s \in QueuedServices : Process(s)
    \/ \E tc \in TCs : Forward(tc)

Spec == Init /\ [][Next]_vars

\* the dispatch and stage components, untouched
IdleDispatch ==
    /\ queue = [s \in QueuedServices |-> <<>>]
    /\ admitted = [s \in QueuedServices |-> <<>>]
    /\ calls = <<>>
    /\ stages = <<>>
    /\ rv = NoRv

---------------------------------------------------------------------------
(* The stage specification: the four stage operations of the request      *)
(* verification service called directly, in any order, on one command.     *)

InitRv ==
    /\ queue = [s \in QueuedServices |-> <<>>]
    /\ out = <<>>
    /\ seqc = 0
    /\ admitted = [s \in QueuedServices |-> <<>>]
    /\ calls = <<>>
    /\ stages = <<>>
    /\ last = Op("init", 0, "none", FALSE, FALSE)
    /\ rv \in RvArgs
    /\ IdleExt

Stage(k, w) ==
    /\ Len(stages) < MaxStageCalls
    /\ out' = w.out
    /\ seqc' = w.seqc
    /\ stages' = Append(stages, [stage |-> k, at |-> Len(out)])
    /\ last' = Op("stage", REQUEST_VERIFICATION, "none", FALSE, FALSE)
    /\ UNCHANGED <<queue, admitted, calls, rv, ext>>

Accept ==
    Stage(1, accept(World, rv.tc, rv.success, rv.failure_code, rv.failure_data))

Start ==
    Stage(2, start(World, rv.tc, rv.success, rv.failure_code, rv.failure_data))

Progress ==
    Stage(3, progress(World, rv.tc, rv.success, rv.failure_code, rv.failure_data))

Complete ==
    Stage(4, complete(World, rv.tc, rv.success, rv.failure_code, rv.failure_data))

NextRv == Accept \/ Start \/ Progress \/ Complete

SpecRv == InitRv /\ [][NextRv]_vars

---------------------------------------------------------------------------
(* The identity specification: seq_count() called again and again on a    *)
(* fresh identity.                                                         *)

InitIdent ==
    /\ IdleDispatch
    /\ out = <<>>
    /\ seqc = 0
    /\ last = Op("init", 0, "none", FALSE, FALSE)
    /\ gen = PusIdent
    /\ policy = puslib
    /\ hk = Housekeeping({})
    /\ ev = EventReporting(0)
    /\ par = Parameter(FALSE, 1, 0)
    /\ pkt = <<>>
    /\ crc = <<>>

SeqCount ==
    /\ gen.n < MaxSeqCalls
    /\ gen' = seq_count(gen)
    /\ UNCHANGED <<queue, out, seqc, admitted, calls, stages, last, rv, hk, ev, par, pkt, crc, policy>>

NextIdent == SeqCount

SpecIdent == InitIdent /\ [][NextIdent]_vars

---------------------------------------------------------------------------
(* Reading the output stream *)

\* the packets written by the i-th direct stage operation
StageEnd(i) == IF i < Len(stages) THEN stages[i + 1].at ELSE Len(out)

\* the ack bit of stage k (1 accept, 2 start, 3 progress, 4 complete) is set
StageAcked(flags, k) == (flags \div (2 ^ (k - 1))) % 2 = 1

\* the request id of a command as the primary header lays it out: version 0,
\* type 1, secondary header flag 1 and the APID; sequence flags 3 and the name
WireRequestId(tc) ==
    <<24 + tc.apid \div 256, tc.apid % 256, 192 + tc.name \div 256, tc.name % 256>>

IsAcceptance(tm) == tm.service = 1 /\ tm.subservice \in {1, 2}
IsCompletion(tm) == tm.service = 1 /\ tm.subservice \in {7, 8}

\* the positions in the output stream of the packets written while the
\* c-th handled command was in the loop
Segment(c) == (calls[c].at + 1)..calls[c].end

---------------------------------------------------------------------------
(* C2: every stage operation writes exactly one report of service 1 when   *)
(* the stage's ack bit is set in the command, with subservice 2k-1 on      *)
(* success and 2k on failure, and writes nothing otherwise; with all four  *)
(* bits set every operation writes one report, with none set none does.    *)
C2_StageFanOut ==
    /\ \A i \in 1..Len(stages) :
          LET k == stages[i].stage
          IN IF StageAcked(rv.tc.ack_flags, k)
             THEN /\ StageEnd(i) = stages[i].at + 1
                  /\ out[StageEnd(i)].service = 1
                  /\ out[StageEnd(i)].subservice =
                        (IF rv.success THEN 2 * k - 1 ELSE 2 * k)
             ELSE StageEnd(i) = stages[i].at
    /\ rv.tc.ack_flags = AllAckFlags => Len(out) = Len(stages)
    /\ rv.tc.ack_flags = NONE => out = <<>>

\* all four bits set, the four operations called once each: four reports
C2_Witness ==
    /\ rv.tc.ack_flags = AllAckFlags
    /\ Len(stages) = 4
    /\ {stages[i].stage : i \in 1..4} = 1..4
    /\ Len(out) = 4
    /\ {out[i].subservice : i \in 1..4} \in {{1, 3, 5, 7}, {2, 4, 6, 8}}

(* C3: the payload of every verification report begins with the 4-byte     *)
(* request id of the command; a success report carries nothing more, a     *)
(* failure report carries the failure code in the policy's width and then  *)
(* the failure data.                                                        *)
C3_ReportPayload ==
    \A i \in 1..Len(out) :
        LET d == out[i].source_data
            code == IF rv.failure_code = NoCode THEN ILLEGAL_APP_DATA
                    ELSE rv.failure_code
        IN /\ Len(d) >= 4
           /\ SubSeq(d, 1, 4) = WireRequestId(rv.tc)
           /\ rv.success => Len(d) = 4
           /\ ~rv.success =>
                 /\ Len(d) = 4 + FailureCodeSize + Len(rv.failure_data)
                 /\ from_bytes(SubSeq(d, 5, 4 + FailureCodeSize)) = code
                 /\ SubSeq(d, 5 + FailureCodeSize, Len(d)) = rv.failure_data

\* a failure report with a failure code and failure data has been written
C3_Witness ==
    /\ ~rv.success
    /\ rv.failure_code = PUS8_INVALID_FID
    /\ rv.failure_data # <<>>
    /\ rv.tc.name # 0
    /\ Len(out) >= 1
    /\ Len(out[1].source_data) = 7

---------------------------------------------------------------------------
(* Reading the handler log *)

\* the c-th handled command got a bool or an Enum member from its handler
Handled(c) == calls[c].ret.kind \in {"bool", "enum"}

\* the outcome of the c-th handled command
Succeeded(c) == calls[c].ret.kind = "bool" /\ calls[c].ret.ok

AcceptancesOf(c) == {i \in Segment(c) : IsAcceptance(out[i])}
CompletionsOf(c) == {i \in Segment(c) : IsCompletion(out[i])}
\* the packets the handler of the c-th command wrote itself
HandlerTmsOf(c) == {i \in Segment(c) : out[i].service # 1}

\* the commands service s has handled, in the order of the handler calls
HandledBy(s) ==
    LET OfS(c) == c.tc.service = s
        log == SelectSeq(calls, OfS)
    IN [i \in 1..Len(log) |-> log[i].tc]

(* C1: for every command process() handles, an acceptance report is        *)
(* written iff the ACCEPTANCE bit is set and a completion report iff the   *)
(* COMPLETION bit is set; both carry the handler's outcome (success or     *)
(* failure, and the same failure code), acceptance before completion.      *)
C1_AcceptCompleteOutcome ==
    \A c \in 1..Len(calls) :
        Handled(c) =>
            LET f == calls[c].tc.ack_flags
                acc == AcceptancesOf(c)
                com == CompletionsOf(c)
            IN /\ Cardinality(acc) = (IF StageAcked(f, 1) THEN 1 ELSE 0)
               /\ Cardinality(com) = (IF StageAcked(f, 4) THEN 1 ELSE 0)
               /\ \A i \in acc :
                     out[i].subservice = (IF Succeeded(c) THEN 1 ELSE 2)
               /\ \A i \in com :
                     out[i].subservice = (IF Succeeded(c) THEN 7 ELSE 8)
               /\ \A i \in acc, j \in com :
                     /\ i < j
                     /\ out[i].source_data = out[j].source_data

\* a command with both bits set whose handler returned a failure code
C1_Witness ==
    \E c \in 1..Len(calls) :
        /\ calls[c].ret.kind = "enum"
        /\ calls[c].tc.ack_flags = AllAckFlags
        /\ Cardinality(AcceptancesOf(c)) = 1
        /\ Cardinality(CompletionsOf(c)) = 1

(* C4: every command a queue took is handled exactly once and in the order *)
(* it was enqueued (what a queue took is what its service has handled      *)
(* followed by what is still queued), and after process() returns the      *)
(* queue of the service is empty.                                           *)
C4_DrainOnceFifo ==
    /\ \A s \in QueuedServices : admitted[s] = HandledBy(s) \o queue[s]
    /\ (last.op = "process" /\ last.raised = "none") => queue[last.svc] = <<>>

\* process() has returned after handling two different commands of one service
C4_Witness ==
    /\ last.op = "process"
    /\ last.raised = "none"
    /\ Len(calls) = 2
    /\ calls[1].tc # calls[2].tc
    /\ calls[1].tc.service = calls[2].tc.service
    /\ calls[1].at = 0
    /\ Len(admitted[last.svc]) = 2

(* C5: enqueue(tc) appends tc to the queue iff the APID of tc is the       *)
(* identity's, its service type is the service's and its subservice is     *)
(* registered; otherwise the queue is unchanged; in both cases nothing is  *)
(* raised and nothing is written.                                           *)
C5_EnqueueAdmission ==
    /\ last.op = "enqueue" =>
          /\ last.changed <=> last.elig
          /\ last.changed =>
                /\ queue[last.svc] # <<>>
                /\ Eligible(last.svc, queue[last.svc][Len(queue[last.svc])])
          /\ last.raised = "none"
          /\ Len(out) = last.outlen
    /\ \A s \in QueuedServices : \A i \in 1..Len(admitted[s]) :
          Eligible(s, admitted[s][i])

\* an enqueue went through after which one command is queued, and the last
\* enqueue left the queues as they were
C5_Witness ==
    /\ last.op = "enqueue"
    /\ ~last.changed
    /\ ~last.elig
    /\ Len(queue[FUNCTION_MANAGEMENT]) = 1
    /\ out = <<>>

(* C6: a handler failure never aborts the loop: the process() call in      *)
(* which a handler failed still handles every command behind it and leaves *)
(* the queue empty.                                                         *)
C6_FailureNeverAborts ==
    last.op = "process" => queue[last.svc] = <<>>

(* C7: for a command with the ACCEPTANCE bit set the acceptance report     *)
(* precedes every packet the handler of the command writes.                *)
C7_AcceptanceBeforeHandlerTm ==
    \A c \in 1..Len(calls) :
        \A i \in AcceptancesOf(c), j \in HandlerTmsOf(c) : i < j

(* C7 as amended: the acceptance report of a command follows every packet  *)
(* the handler of the command writes.                                       *)
C7_AcceptanceAfterHandlerTm ==
    \A c \in 1..Len(calls) :
        /\ Handled(c) /\ StageAcked(calls[c].tc.ack_flags, 1)
              => AcceptancesOf(c) # {}
        /\ \A i \in AcceptancesOf(c), j \in HandlerTmsOf(c) : j < i

\* a connection test with the ACCEPTANCE bit: TM[17,2], then the acceptance
C7_Witness ==
    \E c \in 1..Len(calls) :
        /\ calls[c].tc.service = TEST
        /\ StageAcked(calls[c].tc.ack_flags, 1)
        /\ HandlerTmsOf(c) # {}
        /\ AcceptancesOf(c) # {}

(* C8: the loop writes no start (3, 4) or progress (5, 6) report whatever  *)
(* the ack bits: per handled command at most one acceptance and at most    *)
(* one completion report, and no other report of service 1.                 *)
C8_NoStartNoProgress ==
    /\ \A i \in 1..Len(out) :
          out[i].service = 1 => out[i].subservice \in {1, 2, 7, 8}
    /\ \A c \in 1..Len(calls) :
          /\ Cardinality(AcceptancesOf(c)) <= 1
          /\ Cardinality(CompletionsOf(c)) <= 1
          /\ Segment(c) = AcceptancesOf(c) \cup CompletionsOf(c)
                              \cup HandlerTmsOf(c)

\* a handled command with the start and progress bits set
C8_Witness ==
    \E c \in 1..Len(calls) :
        /\ Handled(c)
        /\ StageAcked(calls[c].tc.ack_flags, 2)
        /\ StageAcked(calls[c].tc.ack_flags, 3)
        /\ Cardinality(Segment(c)) >= 2

(* C9: when the handler returns False every failure report of the command *)
(* carries ILLEGAL_APP_DATA (5); when it returns a failure code the reports *)
(* carry that code.                                                         *)
C9_FailureCode ==
    \A c \in 1..Len(calls) :
        (Handled(c) /\ ~Succeeded(c)) =>
            \A i \in AcceptancesOf(c) \cup CompletionsOf(c) :
                /\ out[i].subservice \in {2, 8}
                /\ Len(out[i].source_data) = 4 + FailureCodeSize
                /\ from_bytes(SubSeq(out[i].source_data, 5, 4 + FailureCodeSize)) =
                      (IF calls[c].ret.kind = "bool" THEN 5 ELSE calls[c].ret.code)

\* a handler returned False and another returned a failure code, both reported
C9_Witness ==
    \E c, e \in 1..Len(calls) :
        /\ calls[c].ret.kind = "bool" /\ ~calls[c].ret.ok
        /\ calls[e].ret.kind = "enum"
        /\ AcceptancesOf(c) # {}
        /\ CompletionsOf(e) # {}

(* C10: Process.forward(tc) raises TcPacketRoutingError and runs no        *)
(* handler for every tc whose APID is not the process's, whose service is  *)
(* not enabled or whose subservice is not registered in its service.       *)
C10_ForwardRoutingError ==
    [][\A tc \in TCs :
          (/\ Forward(tc)
           /\ \/ tc.apid # IdentApid
              \/ tc.service \notin _pus_services
              \/ tc.subservice \notin _subservices(tc.service))
          => /\ last'.raised = "TcPacketRoutingError"
             /\ calls' = calls]_vars

---------------------------------------------------------------------------
(* The housekeeping specification: a housekeeping service built without or *)
(* with parameters and set up with reports through add(); then add() and   *)
(* the subservice handlers are called, the handlers with the application   *)
(* data of commands.                                                        *)

\* the parameter tables a service is built with: none (as the process    *)
\* builds it) or parameters 1 and 2
HkParamTables == {{}, {1, 2}}

HkSids == {1, 2}

\* the parameter-id lists of the requests: known ids, the unknown id 3,
\* and an id named twice
HkParamLists == {<<>>, <<1, 2>>, <<3, 2>>, <<1, 1>>, <<3, 3>>}

\* application data of create requests: structure id, interval, N, N
\* parameter ids, number of fixed-length arrays
CreateDatas ==
    {pack(2, <<sid, 5, Len(pids)>>) \o pack(2, pids) \o pack(2, <<nfa>>) :
        sid \in HkSids, pids \in HkParamLists, nfa \in {0}}
    \cup {pack(2, <<1, 5, 1, 1, 1>>), pack(2, <<1, 5, 2, 1>>)}

\* application data of append requests: structure id, N, N parameter ids,
\* number of fixed-length arrays
AppendDatas ==
    {pack(2, <<sid, Len(pids)>>) \o pack(2, pids) \o pack(2, <<0>>) :
        sid \in HkSids, pids \in HkParamLists}

\* the report-id lists of the requests
ReportIdLists == {<<1>>, <<2>>, <<1, 2>>, <<1, 1>>}

\* application data of a request with N report ids
ReportIdData(ids) == pack(2, <<Len(ids)>>) \o pack(2, ids)

\* application data of requests with N report ids; one is cut short
ReportIdDatas ==
    {ReportIdData(ids) : ids \in ReportIdLists} \cup {pack(2, <<2, 1>>)}

\* application data of interval requests: N, then N (structure id, interval)
IntervalDatas == {pack(2, <<1, 1, 7>>)}

\* the reports a table is set up with through add(): (sid, enabled) pairs,
\* each report with parameter 1 and collection interval 1000
HkSetups == {<<>>, <<<<1, TRUE>>>>, <<<<1, FALSE>>>>, <<<<1, TRUE>>, <<2, FALSE>>>>}

RECURSIVE setup(_, _, _)
\* add(sid, 1000, {1: ...}, enabled, diagnostic) for every pair of the list
setup(h, pairs, diagnostic) ==
    IF pairs = <<>> THEN h
    ELSE setup(add(h, Head(pairs)[1], 1000, <<1>>, Head(pairs)[2], diagnostic).h,
               Tail(pairs), diagnostic)

HkOp(name, subservice, app_data, ret) ==
    [op |-> name, n |-> last.n + 1, subservice |-> subservice,
     app_data |-> app_data, ret |-> ret, before |-> hk, outlen |-> Len(out)]

InitHk ==
    /\ IdleDispatch
    /\ out = <<>>
    /\ seqc = 0
    /\ gen = PusIdent
    /\ policy = puslib
    /\ ev = EventReporting(0)
    /\ par = Parameter(FALSE, 1, 0)
    /\ pkt = <<>>
    /\ crc = <<>>
    /\ hk \in {setup(setup(Housekeeping(params), hs, FALSE), ds, TRUE) :
                    params \in HkParamTables, hs \in HkSetups, ds \in HkSetups}
    /\ last = [op |-> "init", n |-> 0, subservice |-> 0, app_data |-> <<>>,
               ret |-> RetOther, before |-> hk, outlen |-> 0]

HkFrame == UNCHANGED <<queue, out, seqc, admitted, calls, stages, rv, gen, ev, par, pkt, crc, policy>>

\* pus_service_3.add(sid, 1000, params_in_report, enabled, diagnostic)
HkAdd(sid, params_in_report, enabled, diagnostic) ==
    LET r == add(hk, sid, 1000, params_in_report, enabled, diagnostic)
    IN /\ last.n < MaxHkOps
       /\ hk' = r.h
       /\ last' = HkOp("add", IF diagnostic THEN 2 ELSE 1, <<sid>>, r.ret)
       /\ HkFrame

\* the handler of a subservice called with the application data
HkCommand(subservice, app_data) ==
    LET r == housekeeping_handler(hk, subservice, app_data)
    IN /\ last.n < MaxHkOps
       /\ hk' = r.h
       /\ last' = HkOp("command", subservice, app_data, r.ret)
       /\ HkFrame

\* the handler of subservice 27 or 28 called with the application data
HkRequest(subservice, app_data) ==
    LET r == _request_reports(hk, [out |-> out, seqc |-> seqc], app_data,
                              subservice = 28)
    IN /\ last.n < MaxHkOps
       /\ out' = r.w.out
       /\ seqc' = r.w.seqc
       /\ last' = HkOp("request", subservice, app_data, r.ret)
       /\ UNCHANGED <<queue, admitted, calls, stages, rv, gen, hk, ev, par, pkt, crc, policy>>

\* One iteration of the loop of PusService.process of the housekeeping
\* service: an exception of the handler leaves the loop before accept and
\* complete are called
housekeeping_process_one(h, w, tc_packet) ==
    LET r == housekeeping_handler(h, tc_packet.subservice, tc_packet.app_data)
        success == IF r.ret.kind = "bool" THEN r.ret.ok ELSE FALSE
        pus_error_code == IF r.ret.kind = "enum" THEN r.ret.code ELSE NoCode
    IN IF r.ret.kind \in {"bool", "enum"}
       THEN [h |-> r.h, ret |-> r.ret, raised |-> "none",
             w |-> accept_and_complete(w, tc_packet, success, pus_error_code)]
       ELSE [h |-> r.h, ret |-> r.ret, w |-> w,
             raised |-> IF r.ret.kind = "other" THEN "TypeError" ELSE r.ret.kind]

\* application data of create and append requests whose number of
\* fixed-length arrays is not zero, and of one create request where it is
SuperCommutatedDatas ==
    {pack(2, <<sid, 5, 1, 1, 1>>) : sid \in HkSids}
    \cup {pack(2, <<sid, 1, 2, 1>>) : sid \in HkSids}

HkProcessDatas == SuperCommutatedDatas \cup {pack(2, <<2, 5, 1, 1, 0>>)}

\* enqueue(tc_packet) and process() of the housekeeping service for a create
\* or append command
HkProcess(tc_packet) ==
    LET r == housekeeping_process_one(hk, World, tc_packet)
    IN /\ last.n < MaxHkOps
       /\ hk' = r.h
       /\ out' = r.w.out
       /\ seqc' = r.w.seqc
       /\ last' = [op |-> "process", n |-> last.n + 1,
                   subservice |-> tc_packet.subservice,
                   app_data |-> tc_packet.app_data, ret |-> r.ret, before |-> hk,
                   outlen |-> Len(out), ack_flags |-> tc_packet.ack_flags,
                   raised |-> r.raised]
       /\ UNCHANGED <<queue, admitted, calls, stages, rv, gen, ev, par, pkt, crc, policy>>

HkCreate == \E ss \in {1, 2}, d \in CreateDatas : HkCommand(ss, d)
HkDelete == \E ss \in {3, 4}, d \in ReportIdDatas : HkCommand(ss, d)
HkToggle ==
    \E ss \in {5, 6, 7, 8}, d \in {pack(2, <<1, 1>>), pack(2, <<2, 1, 2>>)} :
        HkCommand(ss, d)
HkAppend == \E ss \in {29, 30}, d \in AppendDatas : HkCommand(ss, d)
HkModifyIntervals == \E ss \in {31, 32}, d \in IntervalDatas : HkCommand(ss, d)

NextHk ==
    \/ \E sid \in HkSids, e, d \in BOOLEAN : HkAdd(sid, <<1>>, e, d)
    \/ HkCreate
    \/ HkDelete
    \/ HkToggle
    \/ HkAppend
    \/ HkModifyIntervals
    \/ \E ss \in {27, 28}, d \in ReportIdDatas : HkRequest(ss, d)

SpecHk == InitHk /\ [][NextHk]_vars

\* the housekeeping service processing create and append commands
NextHkProcess ==
    \E ss \in {1, 2, 29, 30}, d \in HkProcessDatas, f \in TcAckFlags :
        HkProcess(TcPacket(IdentApid, 0, f, HOUSEKEEPING, ss, d))

SpecHkProcess == InitHk /\ [][NextHkProcess]_vars

---------------------------------------------------------------------------
(* The life of a report: a housekeeping service with parameters 1 and 2    *)
(* and no report takes create, enable, disable, append and delete commands *)
(* for structure id 1 of either flavor.                                     *)

MaxLifeOps == 3

\* the application data of the commands, by subservice
LifeData(subservice) ==
    CASE subservice \in {1, 2} -> pack(2, <<1, 5, 1, 1, 0>>)
      [] subservice \in {29, 30} -> pack(2, <<1, 1, 2, 0>>)
      [] OTHER -> ReportIdData(<<1>>)

InitLife ==
    /\ IdleDispatch
    /\ out = <<>>
    /\ seqc = 0
    /\ gen = PusIdent
    /\ policy = puslib
    /\ ev = EventReporting(0)
    /\ par = Parameter(FALSE, 1, 0)
    /\ pkt = <<>>
    /\ crc = <<>>
    /\ hk = Housekeeping({1, 2})
    /\ last = [op |-> "init", n |-> 0, subservice |-> 0, app_data |-> <<>>,
               ret |-> RetOther, before |-> hk, outlen |-> 0, log |-> <<>>]

\* the handler of a subservice called with the application data; log is the
\* observer's list of the commands so far
LifeCommand(subservice) ==
    LET r == housekeeping_handler(hk, subservice, LifeData(subservice))
    IN /\ last.n < MaxLifeOps
       /\ hk' = r.h
       /\ last' = [op |-> "command", n |-> last.n + 1, subservice |-> subservice,
                   app_data |-> LifeData(subservice), ret |-> r.ret,
                   before |-> hk, outlen |-> Len(out),
                   log |-> Append(last.log, [subservice |-> subservice,
                                             ret |-> r.ret])]
       /\ HkFrame

NextLife == \E subservice \in {1, 2, 3, 4, 5, 6, 7, 8, 29, 30} : LifeCommand(subservice)

SpecLife == InitLife /\ [][NextLife]_vars

---------------------------------------------------------------------------
(* The event specification: an event reporting service set up through     *)
(* add() with one or two reports on the trigger parameter; then the        *)
(* parameter is set, reports are dispatched by hand, enabled and disabled, *)
(* and further reports are added.                                           *)

\* the values the trigger parameter is set to
EvValues == {0, 1, 2}

\* to_value and from_value of a report
EvTargets == EvValues \cup {None}

\* the first report of the setup: event 3, INFO, without or with the trigger
\* parameter in the report, enabled or not, any trigger
EvFirst ==
    [eid : {3}, severity : {INFO}, params : {<<>>, <<1>>}, enabled : BOOLEAN,
     trig_param : {TRUE}, to_value : EvTargets, from_value : EvTargets]

\* the second report of the setup, if any: event 5, LOW, enabled, triggered
\* by any change or by a change to 1
EvSecond ==
    [eid : {5}, severity : {LOW}, params : {<<>>}, enabled : {TRUE},
     trig_param : {TRUE}, to_value : {None, 1}, from_value : {None}]

EvSetups == {<<a>> : a \in EvFirst} \cup {<<a, b>> : a \in EvFirst, b \in EvSecond}

RECURSIVE ev_setup(_, _)
\* pus_service_5.add(...) for every report of the list
ev_setup(e, args) ==
    IF args = <<>> THEN e
    ELSE LET a == Head(args)
         IN ev_setup(EventReporting_add(e, a.eid, a.severity, a.params, a.enabled,
                                        a.trig_param, a.to_value, a.from_value).e,
                     Tail(args))

EvOp(name, arg, raised) ==
    [op |-> name, n |-> last.n + 1, arg |-> arg, raised |-> raised,
     before |-> ev, outlen |-> Len(out), seqc |-> seqc]

InitEv ==
    /\ IdleDispatch
    /\ out = <<>>
    /\ seqc = 0
    /\ gen = PusIdent
    /\ policy = puslib
    /\ hk = Housekeeping({})
    /\ par = Parameter(FALSE, 1, 0)
    /\ pkt = <<>>
    /\ crc = <<>>
    /\ ev \in {ev_setup(EventReporting(0), args) : args \in EvSetups}
    /\ last = [op |-> "init", n |-> 0, arg |-> 0, raised |-> "none",
               before |-> ev, outlen |-> 0, seqc |-> 0]

EvFrame == UNCHANGED <<queue, admitted, calls, stages, rv, gen, hk, par, pkt, crc, policy>>

\* param.value = new_value
EvSet(new_value) ==
    LET r == value_setter(ev, World, new_value)
    IN /\ last.n < MaxEvOps
       /\ ev' = r.e
       /\ out' = r.w.out
       /\ seqc' = r.w.seqc
       /\ last' = EvOp("set", new_value, r.raised)
       /\ EvFrame

\* pus_service_5.dispatch(eid) / pus_service_5.dispatch(report)
EvDispatch(eid_or_report) ==
    LET r == dispatch(ev, World, eid_or_report)
    IN /\ last.n < MaxEvOps
       /\ eid_or_report.by = "report" => Known(ev, eid_or_report.eid)
       /\ out' = r.w.out
       /\ seqc' = r.w.seqc
       /\ last' = EvOp("dispatch", eid_or_report.eid, r.raised)
       /\ UNCHANGED ev
       /\ EvFrame

\* report.enable() / report.disable()
EvSetEnabled(eid, enabled) ==
    /\ last.n < MaxEvOps
    /\ Known(ev, eid)
    /\ ev' = set_enabled(ev, eid, enabled)
    /\ last' = EvOp(IF enabled THEN "enable" ELSE "disable", eid, "none")
    /\ UNCHANGED <<out, seqc>>
    /\ EvFrame

\* pus_service_5.add(eid, Severity.LOW, None, True, param): a report
\* triggered by any change
EvAdd(eid) ==
    LET r == EventReporting_add(ev, eid, LOW, <<>>, TRUE, TRUE, None, None)
    IN /\ last.n < MaxEvOps
       /\ ev' = r.e
       /\ last' = EvOp("add", eid, r.raised)
       /\ UNCHANGED <<out, seqc>>
       /\ EvFrame

\* the application data of an enable / disable request: the count and the
\* listed event ids
EvIdLists == {<<>>, <<3>>, <<5>>, <<3, 5>>, <<5, 3>>, <<3, 10>>, <<10, 3>>, <<10>>}

\* the request of the ids, and requests whose count does not match the ids
EvToggleData ==
    {to_bytes(Len(ids), EventCountSize) \o pack(EventIdSize, ids) : ids \in EvIdLists}
    \cup {<<>>, <<2, 0, 3>>, <<1, 0, 3, 0>>}

\* a telecommand of the service, its application data and what the handler
\* returned
EvTc(name, app_data, ok) ==
    [op |-> name, n |-> last.n + 1, arg |-> 0, raised |-> "none",
     before |-> ev, outlen |-> Len(out), seqc |-> seqc,
     app_data |-> app_data, ok |-> ok]

\* TC[5,5] (enable) and TC[5,6] (disable)
EvToggle(app_data, enable) ==
    LET r == _toggle(ev, app_data, enable)
    IN /\ last.n < MaxEvOps
       /\ ev' = r.e
       /\ last' = EvTc(IF enable THEN "tc5" ELSE "tc6", app_data, r.ok)
       /\ UNCHANGED <<out, seqc>>
       /\ EvFrame

\* TC[5,7]
EvReportDisabled(app_data) ==
    LET r == _report_disabled_events(ev, World, app_data)
    IN /\ last.n < MaxEvOps
       /\ out' = r.w.out
       /\ seqc' = r.w.seqc
       /\ last' = EvTc("tc7", app_data, r.ok)
       /\ UNCHANGED ev
       /\ EvFrame

NextEv ==
    \/ \E v \in EvValues : EvSet(v)
    \/ \E eid \in {3, 5, 10}, by \in {"id", "report"} :
          EvDispatch([by |-> by, eid |-> eid])
    \/ \E enabled \in BOOLEAN : EvSetEnabled(3, enabled)
    \/ \E eid \in {3, 7} : EvAdd(eid)
    \/ \E app_data \in EvToggleData, enable \in BOOLEAN : EvToggle(app_data, enable)
    \/ \E app_data \in {<<>>, <<0>>} : EvReportDisabled(app_data)

SpecEv == InitEv /\ [][NextEv]_vars

---------------------------------------------------------------------------
(* The shared-identity specification: the request verification, test,      *)
(* housekeeping and event reporting services are created with one identity *)
(* and one output stream; test commands are enqueued and processed,        *)
(* housekeeping reports are requested, the trigger parameter is set and    *)
(* event reports are dispatched and asked for.                              *)

MaxSharedOps == 4

\* the event service has report 3, enabled or not, triggered by any change
\* or by a change to 1
SharedEvents ==
    {ev_setup(EventReporting(0), <<a>>) :
        a \in [eid : {3}, severity : {INFO}, params : {<<>>}, enabled : BOOLEAN,
               trig_param : {TRUE}, to_value : {None, 1}, from_value : {None}]}

\* the housekeeping service has parameters 1 and 2 and the enabled report 1
SharedHousekeeping == setup(Housekeeping({1, 2}), <<<<1, TRUE>>>>, FALSE)

\* the test commands: of this application process without and with every
\* ack flag, and of another application process
SharedTCs ==
    {TcPacket(IdentApid, 0, NONE, TEST, 1, <<>>),
     TcPacket(IdentApid, 0, AllAckFlags, TEST, 1, <<>>),
     TcPacket(IdentApid + 1, 0, AllAckFlags, TEST, 1, <<>>)}

SharedOp(name) == [op |-> name, n |-> last.n + 1, outlen |-> Len(out), seqc |-> seqc]

InitShared ==
    /\ IdleDispatch
    /\ out = <<>>
    /\ seqc = 0
    /\ gen = PusIdent
    /\ policy = puslib
    /\ hk = SharedHousekeeping
    /\ ev \in SharedEvents
    /\ par = Parameter(FALSE, 1, 0)
    /\ pkt = <<>>
    /\ crc = <<>>
    /\ last = [op |-> "init", n |-> 0, outlen |-> 0, seqc |-> 0]

SharedFrame == UNCHANGED <<queue, admitted, calls, stages, rv, gen, hk, par, pkt, crc, policy>>

\* pus_service_17.enqueue(tc) and pus_service_17.process()
SharedTest(tc) ==
    LET r == process(TEST, enqueue(TEST, <<>>, tc), World, <<>>)
    IN /\ last.n < MaxSharedOps
       /\ out' = r.w.out
       /\ seqc' = r.w.seqc
       /\ last' = SharedOp("test")
       /\ UNCHANGED ev
       /\ SharedFrame

\* the handler of TC[3,27] called with the application data
SharedHkRequest(app_data) ==
    LET r == _request_reports(hk, World, app_data, FALSE)
    IN /\ last.n < MaxSharedOps
       /\ out' = r.w.out
       /\ seqc' = r.w.seqc
       /\ last' = SharedOp("request")
       /\ UNCHANGED ev
       /\ SharedFrame

\* param.value = new_value
SharedSet(new_value) ==
    LET r == value_setter(ev, World, new_value)
    IN /\ last.n < MaxSharedOps
       /\ ev' = r.e
       /\ out' = r.w.out
       /\ seqc' = r.w.seqc
       /\ last' = SharedOp("set")
       /\ SharedFrame

\* pus_service_5.dispatch(3)
SharedDispatch ==
    LET r == dispatch(ev, World, [by |-> "id", eid |-> 3])
    IN /\ last.n < MaxSharedOps
       /\ out' = r.w.out
       /\ seqc' = r.w.seqc
       /\ last' = SharedOp("dispatch")
       /\ UNCHANGED ev
       /\ SharedFrame

\* the handler of TC[5,7] called with empty application data
SharedDisabledEvents ==
    LET r == _report_disabled_events(ev, World, <<>>)
    IN /\ last.n < MaxSharedOps
       /\ out' = r.w.out
       /\ seqc' = r.w.seqc
       /\ last' = SharedOp("tc7")
       /\ UNCHANGED ev
       /\ SharedFrame

NextShared ==
    \/ \E tc \in SharedTCs : SharedTest(tc)
    \/ \E ids \in {<<1>>, <<2>>} : SharedHkRequest(ReportIdData(ids))
    \/ \E v \in {0, 1} : SharedSet(v)
    \/ SharedDispatch
    \/ SharedDisabledEvents

SpecShared == InitShared /\ [][NextShared]_vars

---------------------------------------------------------------------------
(* The policy specification: policies are constructed, configured and made *)
(* active.                                                                  *)

MaxPolicyOps == 3

FieldTypes == {"UInt8Parameter", "UInt16Parameter"}

PolicyOp(name, arg) ==
    [op |-> name, n |-> last.n + 1, arg |-> arg, before |-> policy,
     passed |-> IF name = "set_policy" THEN arg ELSE last.passed]

InitPolicy ==
    /\ IdleDispatch
    /\ out = <<>>
    /\ seqc = 0
    /\ gen = PusIdent
    /\ hk = Housekeeping({})
    /\ ev = EventReporting(0)
    /\ par = Parameter(FALSE, 1, 0)
    /\ pkt = <<>>
    /\ crc = <<>>
    /\ policy = puslib
    /\ last = [op |-> "init", n |-> 0, arg |-> 0, before |-> puslib, passed |-> 1]

PolicyFrame ==
    UNCHANGED <<queue, out, seqc, admitted, calls, stages, rv, gen, hk, ev, par, pkt, crc>>

\* policy = Policy()
PolicyConstruct(field_type, pus_version) ==
    /\ last.n < MaxPolicyOps
    /\ policy' = Policy(policy, field_type, pus_version)
    /\ last' = PolicyOp("construct", Len(policy.instances) + 1)
    /\ PolicyFrame

\* policy.request_verification.failure_code_type = field_type
PolicyConfigure(i, field_type) ==
    /\ last.n < MaxPolicyOps
    /\ policy' = configure(policy, i, field_type)
    /\ last' = PolicyOp("configure", i)
    /\ PolicyFrame

\* set_policy(policy)
PolicySet(i) ==
    /\ last.n < MaxPolicyOps
    /\ policy' = set_policy(policy, i)
    /\ last' = PolicyOp("set_policy", i)
    /\ PolicyFrame

NextPolicy ==
    \/ \E field_type \in FieldTypes, pus_version \in {1, 2} :
          PolicyConstruct(field_type, pus_version)
    \/ \E i \in DOMAIN policy.instances, field_type \in FieldTypes :
          PolicyConfigure(i, field_type)
    \/ \E i \in DOMAIN policy.instances : PolicySet(i)

SpecPolicy == InitPolicy /\ [][NextPolicy]_vars

---------------------------------------------------------------------------
(* The parameter specification: an integer parameter of one or two bytes, *)
(* signed or not, is built with a value of its range; then handlers        *)
(* subscribe to it and values around the ends of its range are assigned.   *)

\* the largest and the smallest value of the parameter's type
MaxOf(p) == IF p.signed THEN 2 ^ (p.size * 8 - 1) - 1 ELSE 2 ^ (p.size * 8) - 1
MinOf(p) == IF p.signed THEN -(2 ^ (p.size * 8 - 1)) ELSE 0

\* the values assigned: the ends of the range, their neighbours outside it,
\* and the values of the 8-bit cases
ParValues(p) == {MinOf(p) - 1, MinOf(p), MaxOf(p), MaxOf(p) + 1, -1, 0, 1, 255, 256}

ParHandlers == {"a", "b"}

ParOp(name, arg, r) ==
    [op |-> name, n |-> last.n + 1, arg |-> arg, raised |-> r.raised,
     calls |-> r.calls, before |-> par]

InitParam ==
    /\ IdleDispatch
    /\ out = <<>>
    /\ seqc = 0
    /\ gen = PusIdent
    /\ policy = puslib
    /\ hk = Housekeeping({})
    /\ ev = EventReporting(0)
    /\ pkt = <<>>
    /\ crc = <<>>
    /\ \E signed \in BOOLEAN, size \in {1, 2} :
          \E init_value \in {0, 1, MaxOf(Parameter(signed, size, 0)),
                             MinOf(Parameter(signed, size, 0))} :
              par = Parameter(signed, size, init_value)
    /\ last = [op |-> "init", n |-> 0, arg |-> 0, raised |-> "none",
               calls |-> <<>>, before |-> par]

ParFrame == UNCHANGED <<queue, out, seqc, admitted, calls, stages, rv, gen, hk, ev, pkt, crc, policy>>

\* param.value = new_value
ParSet(new_value) ==
    LET r == value_set(par, new_value)
    IN /\ last.n < MaxParOps
       /\ par' = r.p
       /\ last' = ParOp("assign", new_value, r)
       /\ ParFrame

\* param.subscribe(event_handler)
ParSubscribe(event_handler) ==
    /\ last.n < MaxParOps
    /\ Len(par.events) < 2
    /\ par' = subscribe(par, event_handler)
    /\ last' = ParOp("subscribe", 0, [raised |-> "none", calls |-> <<>>])
    /\ ParFrame

NextParam ==
    \/ \E v \in ParValues(par) : ParSet(v)
    \/ \E h \in ParHandlers : ParSubscribe(h)

SpecParam == InitParam /\ [][NextParam]_vars

---------------------------------------------------------------------------
(* The checksum specification: calculateb takes a byte string one byte a   *)
(* turn of its loop; at the end of the string its checksum may be appended *)
(* big-endian and the loop goes on over the two bytes.                      *)

\* the test vectors of ECSS-E-70-41C, Annex B
CrcVectors ==
    {<<0, 0>>, <<0, 0, 0>>, <<171, 205, 239, 1>>, <<20, 86, 248, 154, 0, 1>>}

\* the bytes of the longer strings
CrcBytes == {0, 1, 2, 16, 33, 127, 128, 255}

RECURSIVE Strings(_)
\* the strings over CrcBytes of length n or less
Strings(n) ==
    IF n = 0 THEN {<<>>}
    ELSE Strings(n - 1) \cup {Append(m, b) : m \in Strings(n - 1), b \in CrcBytes}

InitCrc ==
    /\ IdleDispatch
    /\ out = <<>>
    /\ seqc = 0
    /\ last = Op("init", 0, "none", FALSE, FALSE)
    /\ gen = PusIdent
    /\ policy = puslib
    /\ hk = Housekeeping({})
    /\ ev = EventReporting(0)
    /\ par = Parameter(FALSE, 1, 0)
    /\ pkt = <<>>
    /\ \E i \in CrcVectors \cup {<<b>> : b \in 0..255} \cup Strings(MaxCrcLen) :
          crc = [data |-> i, pos |-> 0, reg |-> PRESET, appended |-> FALSE]

CrcFrame ==
    UNCHANGED <<queue, out, seqc, admitted, calls, stages, last, rv, gen, hk, ev, par, pkt, policy>>

\* one turn of the loop of calculateb
CrcUpdate ==
    /\ crc.pos < Len(crc.data)
    /\ crc' = [crc EXCEPT !.pos = @ + 1,
                          !.reg = _update_crc(@, crc.data[crc.pos + 1])]
    /\ CrcFrame

\* the checksum of the string is appended to it: pec.to_bytes(2, byteorder='big')
CrcAppend ==
    /\ crc.pos = Len(crc.data)
    /\ ~crc.appended
    /\ crc' = [crc EXCEPT !.data = @ \o to_bytes(crc.reg, 2), !.appended = TRUE]
    /\ CrcFrame

NextCrc == CrcUpdate \/ CrcAppend

SpecCrc == InitCrc /\ [][NextCrc]_vars

---------------------------------------------------------------------------
(* The codec specification: a TC or a TM packet is built by create from    *)
(* keyword arguments and serialised; its bytes, or the bytes a peer sends  *)
(* for it, come back whole, cut short or with one byte replaced and are    *)
(* deserialised with the expectations that mirror the packet; the packet   *)
(* deserialize returns is serialised again.                                *)

\* CucTime.__bytes__ of a time of four bytes of seconds and two of fraction
\* with its preamble (TAI, no extension)
CucTime_bytes(seconds, fraction) ==
    <<0 * 128 + 1 * 16 + 3 * 4 + 2>> \o to_bytes(seconds, 4)
    \o to_bytes(fraction, 2)

\* the payloads: None, and the first bytes of DEADBEEF
Payloads ==
    {NoneBytes} \cup {SubSeq(<<222, 173, 190, 239>>, 1, n) : n \in 0..MaxPayloadLen}

\* the keyword arguments of create
CodecArgs ==
    {[cls |-> "TC", has_pec |-> has_pec, packet_version_number |-> 0,
      secondary_header_flag |-> flag, apid |-> 16, seq_flags |-> UNSEGMENTED,
      name |-> 80, seq_count |-> None, data_length |-> None,
      pus_version |-> None, ack_flags |-> ack_flags,
      spacecraft_time_ref_status |-> None, service_type |-> 8,
      service_subtype |-> 1, source |-> source, msg_type_counter |-> None,
      destination |-> None, time |-> NoneBytes, data |-> data] :
        has_pec \in BOOLEAN, flag \in BOOLEAN, ack_flags \in {None, ACCEPTANCE},
        source \in {None, 8225}, data \in Payloads}
    \cup
    {[cls |-> "TM", has_pec |-> has_pec, packet_version_number |-> 0,
      secondary_header_flag |-> flag, apid |-> 16, seq_flags |-> UNSEGMENTED,
      name |-> None, seq_count |-> 16383, data_length |-> None,
      pus_version |-> None, ack_flags |-> None,
      spacecraft_time_ref_status |-> status, service_type |-> 3,
      service_subtype |-> 25, source |-> None, msg_type_counter |-> counter,
      destination |-> destination, time |-> CucTime_bytes(100, 10000),
      data |-> data] :
        has_pec \in BOOLEAN, flag \in BOOLEAN, status \in {None, 1},
        counter \in {None, 4884}, destination \in {None, 8225},
        data \in Payloads}

\* the expectations that mirror the optional fields of a packet; the time is
\* expected by its format or read from its preamble
Expectations(p) ==
    {[has_pec |-> p.has_pec, validate_pec |-> validate_pec,
      has_source_field |-> p.source # None,
      has_type_counter_field |-> p.msg_type_counter # None,
      has_destination_field |-> p.destination # None,
      cuc_time |-> cuc_time, validate_fields |-> validate_fields] :
        validate_pec \in BOOLEAN, validate_fields \in BOOLEAN,
        cuc_time \in IF p.time = NoneBytes THEN {NoneBytes}
                     ELSE {NoneBytes, CucTime_bytes(0, 0)}}

\* the bytes a peer sends for the packet: the layout of serialize, closed by
\* the big-endian calculateb checksum of what precedes it; nothing for a
\* packet that has no layout
peer_bytes(p) ==
    LET sent == serialize([p EXCEPT !.has_pec = FALSE])
    IN IF sent.raised # "none" THEN <<>>
       ELSE IF p.has_pec
         THEN sent.bytes \o to_bytes(calculateb(sent.bytes), _PEC_FIELD_SIZE)
       ELSE sent.bytes

\* what is added to the byte that is replaced
CorruptDeltas == {1, 128}

\* the buffers received for the bytes sent
Buffers(sent) ==
    {[how |-> "whole", buf |-> sent]}
    \cup {[how |-> "truncated", buf |-> SubSeq(sent, 1, Len(sent) - k)] :
            k \in {k \in 1..2 : k <= Len(sent)}}
    \cup {[how |-> "corrupted", buf |-> [sent EXCEPT ![i] = (@ + d) % 256]] :
            i \in DOMAIN sent, d \in CorruptDeltas}

\* the codec before create is called with the keyword arguments
NewCodec(kwargs) ==
    [stage |-> "args", kwargs |-> kwargs, p |-> NoPacket,
     raised |-> "none", from |-> "none", how |-> "none",
     sent |-> <<>>, buf |-> <<>>,
     exp |-> [has_pec |-> FALSE, validate_pec |-> FALSE,
              has_source_field |-> FALSE, has_type_counter_field |-> FALSE,
              has_destination_field |-> FALSE, cuc_time |-> NoneBytes,
              validate_fields |-> FALSE],
     q |-> NoPacket, again |-> <<>>]

InitCodec ==
    /\ IdleDispatch
    /\ out = <<>>
    /\ seqc = 0
    /\ last = Op("init", 0, "none", FALSE, FALSE)
    /\ gen = PusIdent
    /\ policy = puslib
    /\ hk = Housekeeping({})
    /\ ev = EventReporting(0)
    /\ par = Parameter(FALSE, 1, 0)
    /\ crc = <<>>
    /\ \E kwargs \in CodecArgs : pkt = NewCodec(kwargs)

CodecFrame ==
    UNCHANGED <<queue, out, seqc, admitted, calls, stages, last, rv, gen, hk, ev, par, crc, policy>>

\* p = cls.create(**kwargs)
CodecCreate ==
    /\ pkt.stage = "args"
    /\ LET made == create(pkt.kwargs)
       IN pkt' = [pkt EXCEPT !.stage = "created", !.p = made.packet,
                             !.raised = made.raised]
    /\ CodecFrame

\* buf = p.serialize()
CodecSerialize ==
    /\ pkt.stage = "created"
    /\ pkt.raised = "none"
    /\ LET made == serialize(pkt.p)
       IN pkt' = [pkt EXCEPT !.stage = "serialized", !.buf = made.bytes,
                             !.raised = made.raised]
    /\ CodecFrame

\* q = cls.deserialize(buffer, ...) of the bytes of the packet, the
\* packet's own or a peer's, as a buffer received for them
CodecDeserialize ==
    /\ pkt.stage \in {"created", "serialized"}
    /\ pkt.raised = "none"
    /\ \E sent \in IF pkt.stage = "serialized"
                     THEN {[from |-> "own", bytes |-> pkt.buf]}
                     ELSE {[from |-> "peer", bytes |-> peer_bytes(pkt.p)]} :
          /\ sent.bytes # <<>>
          /\ \E buffer \in Buffers(sent.bytes), exp \in Expectations(pkt.p) :
                LET made == deserialize(pkt.p.cls, buffer.buf, exp)
                IN pkt' = [pkt EXCEPT !.stage = "deserialized",
                                      !.from = sent.from, !.how = buffer.how,
                                      !.sent = sent.bytes, !.buf = buffer.buf,
                                      !.exp = exp, !.q = made.packet,
                                      !.raised = made.raised]
    /\ CodecFrame

\* again = q.serialize()
CodecReserialize ==
    /\ pkt.stage = "deserialized"
    /\ pkt.raised = "none"
    /\ LET made == serialize(pkt.q)
       IN pkt' = [pkt EXCEPT !.stage = "reserialized", !.again = made.bytes,
                             !.raised = made.raised]
    /\ CodecFrame

NextCodec ==
    CodecCreate \/ CodecSerialize \/ CodecDeserialize \/ CodecReserialize

SpecCodec == InitCodec /\ [][NextCodec]_vars

---------------------------------------------------------------------------
(* The create specification: create is called with keyword arguments at   *)
(* and just past the ends of the range of every field, with a data_length *)
(* that is absent, zero, right or wrong, and with a payload past the       *)
(* largest packet.                                                         *)

\* data_length as the packet data field of the keyword arguments has it
RightDataLength(kwargs) ==
    (IF kwargs.secondary_header_flag
       THEN _COMMON_SEC_HDR_SIZE
            + (IF kwargs.source # None THEN 2 ELSE 0)
            + (IF kwargs.msg_type_counter # None THEN 2 ELSE 0)
            + (IF kwargs.destination # None THEN 2 ELSE 0)
            + (IF kwargs.cls = "TM" THEN payload_len(kwargs.time) ELSE 0)
       ELSE 0)
    + (IF kwargs.has_pec THEN _PEC_FIELD_SIZE ELSE 0)
    + payload_len(kwargs.data) - 1

\* the keyword arguments with data_length absent, zero, right or one more
Declared(kwargs) ==
    {[kwargs EXCEPT !.data_length = d] :
        d \in {None, 0, RightDataLength(kwargs), RightDataLength(kwargs) + 1}}

\* a payload one byte longer than the packet data field of the largest packet
Oversize == [i \in 1..(_CCSDS_MAX_PACKET_SIZE - _CCSDS_HDR_SIZE + 1) |-> 0]

TcCreateArgs ==
    {[cls |-> "TC", has_pec |-> FALSE, packet_version_number |-> version,
      secondary_header_flag |-> flag, apid |-> apid, seq_flags |-> seq_flags,
      name |-> name, seq_count |-> None, data_length |-> None,
      pus_version |-> pus_version, ack_flags |-> ack_flags,
      spacecraft_time_ref_status |-> None, service_type |-> service_type,
      service_subtype |-> service_subtype, source |-> source,
      msg_type_counter |-> None, destination |-> None, time |-> NoneBytes,
      data |-> <<222, 173>>] :
        version \in {0, 1}, flag \in BOOLEAN, apid \in {2047, 2048},
        seq_flags \in {3, 4}, name \in {16383, 16384},
        pus_version \in {15, 16}, ack_flags \in {15, 16},
        service_type \in {255, 256}, service_subtype \in {255, 256},
        source \in {None, 65535, 65536}}

TmCreateArgs ==
    {[cls |-> "TM", has_pec |-> TRUE, packet_version_number |-> 0,
      secondary_header_flag |-> TRUE, apid |-> 16, seq_flags |-> UNSEGMENTED,
      name |-> None, seq_count |-> count, data_length |-> None,
      pus_version |-> pus_version, ack_flags |-> None,
      spacecraft_time_ref_status |-> status, service_type |-> 3,
      service_subtype |-> service_subtype, source |-> None,
      msg_type_counter |-> counter, destination |-> destination,
      time |-> CucTime_bytes(100, 10000), data |-> <<>>] :
        count \in {16383, 16384}, pus_version \in {15, 16},
        status \in {15, 16}, service_subtype \in {255, 256},
        counter \in {None, 65535, 65536},
        destination \in {None, 65535, 65536}}

\* an oversize payload with every field in its range
OversizeArgs ==
    {[kwargs EXCEPT !.data = Oversize] :
        kwargs \in {k \in TcCreateArgs :
                      /\ k.packet_version_number = 0 /\ k.apid = 2047
                      /\ k.seq_flags = 3 /\ k.name = 16383
                      /\ k.pus_version = 15 /\ k.ack_flags = 15
                      /\ k.service_type = 255 /\ k.service_subtype = 255
                      /\ k.source # 65536}}

CreateArgs ==
    UNION {Declared(kwargs) : kwargs \in TcCreateArgs \cup TmCreateArgs}
    \cup OversizeArgs

InitCreate ==
    /\ IdleDispatch
    /\ out = <<>>
    /\ seqc = 0
    /\ last = Op("init", 0, "none", FALSE, FALSE)
    /\ gen = PusIdent
    /\ policy = puslib
    /\ hk = Housekeeping({})
    /\ ev = EventReporting(0)
    /\ par = Parameter(FALSE, 1, 0)
    /\ crc = <<>>
    /\ \E kwargs \in CreateArgs : pkt = NewCodec(kwargs)

SpecCreate == InitCreate /\ [][CodecCreate]_vars

---------------------------------------------------------------------------
(* Identity *)

---------------------------------------------------------------------------
(* Housekeeping *)

\* the flavor a subservice addresses
Diagnostic(subservice) == subservice \in {2, 4, 7, 8, 28, 30, 32}

\* the table the last operation addressed, before and after it
TableBefore == Table(last.before, Diagnostic(last.subservice))
TableAfter == Table(hk, Diagnostic(last.subservice))

\* the structure id a create or append request starts with
RequestSid == from_bytes(Prefix(last.app_data, StructureIdSize))

\* C12: a create-report command whose structure-id already exists in the
\* addressed table fails with PUS3_SID_ALREADY_PRESENT and leaves the table
\* unchanged: the existing report keeps its parameters, collection interval
\* and enabled flag, and no report is added or replaced.
C12_CreateExistingSid ==
    (/\ last.op = "command"
     /\ last.subservice \in {1, 2}
     /\ RequestSid \in DOMAIN TableBefore)
    => /\ last.ret = RetEnum(PUS3_SID_ALREADY_PRESENT)
       /\ hk = last.before

\* C13: a delete-reports command listing N report ids removes from the
\* addressed table exactly the listed ids that exist and are disabled,
\* leaves every other report unchanged and succeeds; and no command ever
\* removes an enabled report.
C13_DeleteDisabledOnly ==
    /\ \A ids \in ReportIdLists :
         (/\ last.op = "command"
          /\ last.subservice \in {3, 4}
          /\ last.app_data = ReportIdData(ids))
         => /\ last.ret = RetBool(TRUE)
            /\ DOMAIN TableAfter =
                   DOMAIN TableBefore \
                     {k \in DOMAIN TableBefore :
                        /\ \E i \in DOMAIN ids : ids[i] = k
                        /\ ~TableBefore[k].enabled}
            /\ \A k \in DOMAIN TableAfter : TableAfter[k] = TableBefore[k]
            /\ Table(hk, ~Diagnostic(last.subservice))
                  = Table(last.before, ~Diagnostic(last.subservice))
    /\ last.op = "command" =>
         \A d \in BOOLEAN : \A k \in DOMAIN Table(last.before, d) :
            Table(last.before, d)[k].enabled => k \in DOMAIN Table(hk, d)

\* a delete command listed an enabled and a disabled report of the table and
\* removed the disabled one only
C13_Witness ==
    /\ last.op = "command"
    /\ last.subservice \in {3, 4}
    /\ last.app_data = ReportIdData(<<1, 2>>)
    /\ DOMAIN TableBefore = {1, 2}
    /\ TableBefore[1].enabled
    /\ ~TableBefore[2].enabled
    /\ DOMAIN TableAfter = {1}

\* C14: an append command merges the requested parameters into the report
\* only when the report exists and is disabled; appending to an enabled
\* report fails with PUS3_CANNOT_MODIFY_ENABLED_REPORT and appending to an
\* absent structure-id fails with PUS3_SID_NOT_PRESENT, nothing changing in
\* both cases; and no command changes the parameters of an enabled report.
C14_AppendDisabledOnly ==
    /\ (last.op = "command" /\ last.subservice \in {29, 30}) =>
         /\ (RequestSid \notin DOMAIN TableBefore
              => last.ret = RetEnum(PUS3_SID_NOT_PRESENT) /\ hk = last.before)
         /\ (RequestSid \in DOMAIN TableBefore /\ TableBefore[RequestSid].enabled
              => /\ last.ret = RetEnum(PUS3_CANNOT_MODIFY_ENABLED_REPORT)
                 /\ hk = last.before)
         /\ (hk # last.before
              => /\ RequestSid \in DOMAIN TableBefore
                 /\ ~TableBefore[RequestSid].enabled)
    /\ last.op = "command" =>
         \A d \in BOOLEAN : \A k \in DOMAIN Table(last.before, d) :
            (Table(last.before, d)[k].enabled /\ k \in DOMAIN Table(hk, d))
            => Table(hk, d)[k].params = Table(last.before, d)[k].params

\* C15: a create or append request that names the same parameter-id more
\* than once fails with PUS3_PARAM_DUPLICATION and changes no report table
\* and no report, whether or not the duplicated id is a known parameter.
C15_ParamDuplication ==
    \A sid \in HkSids, pids \in {<<1, 1>>, <<3, 3>>} :
       (/\ last.op = "command"
        /\ \/ /\ last.subservice \in {1, 2}
              /\ last.app_data = pack(2, <<sid, 5, 2>>) \o pack(2, pids)
                                    \o pack(2, <<0>>)
           \/ /\ last.subservice \in {29, 30}
              /\ last.app_data = pack(2, <<sid, 2>>) \o pack(2, pids)
                                    \o pack(2, <<0>>))
       => /\ last.ret = RetEnum(PUS3_PARAM_DUPLICATION)
          /\ hk = last.before

\* C16: housekeeping and diagnostic reports live in separate tables: an
\* operation of one flavor (add, create, append, delete, enable, disable,
\* interval change) leaves the table of the other flavor and all its reports
\* unchanged, and the same structure-id can be in both tables as two
\* independent reports.
C16_SeparateTables ==
    last.op \in {"command", "add"} =>
        Table(hk, ~Diagnostic(last.subservice))
          = Table(last.before, ~Diagnostic(last.subservice))

\* structure id 1 is in both tables; a command of one flavor changed the
\* report of its table and the report of the other table is as it was
C16_Witness ==
    /\ last.op = "command"
    /\ 1 \in DOMAIN hk.housekeeping
    /\ 1 \in DOMAIN hk.diagnostic
    /\ 1 \in DOMAIN TableBefore
    /\ TableAfter[1] # TableBefore[1]
    /\ hk.housekeeping[1] # hk.diagnostic[1]

---------------------------------------------------------------------------
(* Event reporting *)

\* the last operation set the trigger parameter to another value
Changed == last.op = "set" /\ last.arg # last.before.value

\* the packets the last operation wrote that carry the report's id
EmittedOf(report) ==
    {k \in (last.outlen + 1)..Len(out) :
        /\ out[k].service = EVENT_REPORTING
        /\ from_bytes(Prefix(out[k].source_data, ParamIdSize)) = report.id}

\* the reports subscribed to the trigger parameter before the last operation
Subscribed == {last.before.events[i] : i \in DOMAIN last.before.events}

\* C17: an enabled event report with a to-value trigger on v (any v of the
\* range, 0 too) is dispatched on a value change of its trigger parameter
\* if and only if the new value equals v.
C17_ToValueTrigger ==
    \A sub \in Subscribed :
       LET report == ReportOf(last.before, sub.eid)
       IN (/\ Changed
           /\ report.enabled
           /\ sub.to_value # None
           /\ sub.from_value = None)
          => Cardinality(EmittedOf(report))
               = IF last.arg = sub.to_value THEN 1 ELSE 0

\* C18: an enabled event report with a from-to trigger (from f to t, any f
\* and t of the range, 0 too) is dispatched on a value change of its trigger
\* parameter if and only if the old value equals f and the new value
\* equals t.
C18_FromToTrigger ==
    \A sub \in Subscribed :
       LET report == ReportOf(last.before, sub.eid)
       IN (/\ Changed
           /\ report.enabled
           /\ sub.to_value # None
           /\ sub.from_value # None)
          => Cardinality(EmittedOf(report))
               = IF last.before.value = sub.from_value /\ last.arg = sub.to_value
                 THEN 1 ELSE 0

\* C19: an enabled event report with an unconditional trigger is dispatched
\* exactly once for every value change of its trigger parameter, as one TM
\* of service 5 whose subservice is the report's severity and whose payload
\* is the report's serialized bytes; an assignment that does not change the
\* value dispatches nothing.
C19_UnconditionalTrigger ==
    /\ \A sub \in Subscribed :
          LET report == ReportOf(last.before, sub.eid)
          IN (/\ Changed
              /\ report.enabled
              /\ sub.to_value = None
              /\ sub.from_value = None)
             => /\ Cardinality(EmittedOf(report)) = 1
                /\ \A k \in EmittedOf(report) :
                     /\ out[k].subservice = report.severity
                     /\ out[k].source_data =
                          to_bytes(report.id, 2)
                            \o (IF report.params = <<>> THEN <<>>
                                ELSE to_bytes(last.arg, 4))
    /\ (last.op = "set" /\ ~Changed) => Len(out) = last.outlen /\ seqc = last.seqc

\* a change of the parameter dispatched a report triggered by any change
\* that carries the parameter
C19_Witness ==
    /\ Changed
    /\ \E sub \in Subscribed :
          LET report == ReportOf(last.before, sub.eid)
          IN /\ report.enabled
             /\ report.params # <<>>
             /\ sub.to_value = None
             /\ sub.from_value = None
             /\ Cardinality(EmittedOf(report)) = 1

\* C20: while an event report is disabled, neither a manual dispatch (by
\* id or by report) nor a change of its trigger parameter, even one meeting
\* the trigger condition, emits a telemetry packet for it or consumes a
\* sequence count.
C20_DisabledNoDispatch ==
    /\ (/\ last.op = "dispatch"
        /\ Known(last.before, last.arg)
        /\ ~ReportOf(last.before, last.arg).enabled)
       => out = SubSeq(out, 1, last.outlen) /\ seqc = last.seqc
    /\ last.op = "set" =>
         /\ \A i \in DOMAIN last.before.reports :
               ~last.before.reports[i].enabled
               => EmittedOf(last.before.reports[i]) = {}
         /\ (\A i \in DOMAIN last.before.reports : ~last.before.reports[i].enabled)
               => Len(out) = last.outlen /\ seqc = last.seqc

\* the parameter changed to the to-value of a disabled report, the only
\* report of the service, and nothing was written
C20_Witness ==
    /\ Changed
    /\ Len(last.before.reports) = 1
    /\ ~last.before.reports[1].enabled
    /\ \E sub \in Subscribed : sub.to_value = last.arg /\ sub.from_value = None
    /\ Len(out) = last.outlen
    /\ seqc = last.seqc

---------------------------------------------------------------------------
(* Disabled reports *)

\* the structure id a parameter report starts with
ReportSid(tm) == from_bytes(Prefix(tm.source_data, ParamIdSize))

\* C21: no operation writes a telemetry packet carrying the values of a
\* report whose enabled flag is false: not a housekeeping or diagnostic
\* parameter-report request naming the report, not a dispatch of an event
\* report, not a change of its trigger parameter.
C21_DisabledNoEmit ==
    /\ last.op = "request" =>
          \A k \in (last.outlen + 1)..Len(out) :
              /\ ReportSid(out[k]) \in DOMAIN TableBefore
              /\ TableBefore[ReportSid(out[k])].enabled
    /\ last.op \in {"set", "dispatch"} =>
          \A i \in DOMAIN last.before.reports :
              ~last.before.reports[i].enabled
              => EmittedOf(last.before.reports[i]) = {}

---------------------------------------------------------------------------
(* Parameters *)

\* the value assigned is in the exact range of the type of the parameter
InRange(p, value) ==
    IF p.signed
    THEN -(2 ^ (8 * p.size - 1)) <= value /\ value <= 2 ^ (8 * p.size - 1) - 1
    ELSE 0 <= value /\ value <= 2 ^ (8 * p.size) - 1

\* C22: setting a parameter to a value equal to its current value is a
\* no-op: the value is unchanged and no subscriber is invoked.
C22_EqualSetNoOp ==
    (last.op = "assign" /\ last.arg = last.before.value)
    => /\ par = last.before
       /\ last.calls = <<>>
       /\ last.raised = "none"

\* the current value was assigned to a parameter with a subscriber
C22_Witness ==
    /\ last.op = "assign"
    /\ last.arg = last.before.value
    /\ last.before.events # <<>>
    /\ last.calls = <<>>

\* C23: a set of an integer parameter succeeds exactly for the values of
\* the exact range of its type (an 8-bit unsigned parameter takes 0 and 255
\* and rejects -1 and 256); a rejected set raises a range error with the
\* stored value unchanged and no subscriber invoked; the stored value is
\* always within the range.
C23_ExactRange ==
    /\ last.op = "assign" =>
          /\ last.raised = "none" <=> InRange(last.before, last.arg)
          /\ InRange(last.before, last.arg) => par.value = last.arg
          /\ ~InRange(last.before, last.arg)
             => /\ last.raised = "ValueError"
                /\ par = last.before
                /\ last.calls = <<>>
          /\ (~last.before.signed /\ last.before.size = 1)
             => /\ last.arg \in {0, 255} => last.raised = "none"
                /\ last.arg \in {-1, 256} => last.raised = "ValueError"
    /\ InRange(par, par.value)

\* 256 was assigned to an 8-bit unsigned parameter with a subscriber and
\* rejected
C23_Witness ==
    /\ last.op = "assign"
    /\ last.arg = 256
    /\ ~last.before.signed
    /\ last.before.size = 1
    /\ last.before.events # <<>>
    /\ last.raised = "ValueError"
    /\ par = last.before

\* the position of the report with the id among the reports added
AddedAt(e, eid) == CHOOSE i \in DOMAIN e.reports : e.reports[i].id = eid

\* the event reports a change of the trigger parameter dispatched came out
\* in the order the reports were added, each once
DispatchedInAddOrder ==
    last.op = "set" =>
        \A k1, k2 \in (last.outlen + 1)..Len(out) :
            k1 < k2 => AddedAt(last.before, ReportSid(out[k1]))
                         < AddedAt(last.before, ReportSid(out[k2]))

---------------------------------------------------------------------------
(* Checksum *)

RECURSIVE BitwiseTurns(_, _)
\* n turns of the bitwise CRC-16: the register shifted left by one, the
\* polynomial 0x1021 taken in when the bit shifted out is set
BitwiseTurns(reg, n) ==
    IF n = 0 \/ reg < 0 THEN reg
    ELSE BitwiseTurns(IF reg >= 32768 THEN xor((reg * 2) % 65536, 4129)
                      ELSE (reg * 2) % 65536,
                      n - 1)

RECURSIVE Bitwise(_, _)
\* the bitwise MSB-first CRC-16 of the bytes, from the register
Bitwise(reg, i) ==
    IF i = <<>> \/ reg < 0 THEN reg
    ELSE Bitwise(BitwiseTurns(xor(reg, Head(i) * 256), 8), Tail(i))

\* the bytes the loop has taken
Taken == SubSeq(crc.data, 1, crc.pos)

\* the whole string is taken and it is the string given, nothing appended
ChecksumOf(i) == crc.data = i /\ crc.pos = Len(i) /\ ~crc.appended

\* C30: the table-driven checksum equals the bitwise MSB-first CRC-16 with
\* polynomial 0x1021 and initial register 0xFFFF, without reflection or
\* final XOR, on every input; it is always in 0..65535; the checksums of
\* 0000, 000000, ABCDEF01 and 1456F89A0001 are 1D0F, CC9C, 04A2 and 7FD5.
C30_TableEqualsBitwise ==
    /\ crc.reg = Bitwise(65535, Taken)
    /\ crc.reg \in 0..65535
    /\ ChecksumOf(<<0, 0>>) => crc.reg = 7439
    /\ ChecksumOf(<<0, 0, 0>>) => crc.reg = 52380
    /\ ChecksumOf(<<171, 205, 239, 1>>) => crc.reg = 1186
    /\ ChecksumOf(<<20, 86, 248, 154, 0, 1>>) => crc.reg = 32725

\* the checksum of 1456F89A0001 is made
C30_Witness == ChecksumOf(<<20, 86, 248, 154, 0, 1>>) /\ crc.reg = 32725

\* the checksum of a string followed by its checksum is zero
ResidueZero == (crc.appended /\ crc.pos = Len(crc.data)) => crc.reg = 0


---------------------------------------------------------------------------
(* Packet codec *)

\* the buffer deserialize was given is the whole of the packet's own bytes
OwnWhole == pkt.from = "own" /\ pkt.how = "whole"

(* C25: for every valid TC or TM packet p, whatever its optional fields,   *)
(* its payload and its checksum flag, serialize(p) gives bytes;            *)
(* deserializing them with the expectations that mirror p returns a packet *)
(* equal to p field by field, and serializing that packet gives the same   *)
(* bytes again.                                                            *)
C25_RoundTrip ==
    /\ pkt.stage = "serialized" => pkt.raised = "none"
    /\ pkt.stage = "deserialized" /\ OwnWhole =>
          pkt.raised = "none" /\ pkt.q = pkt.p
    /\ pkt.stage = "reserialized" /\ OwnWhole =>
          pkt.raised = "none" /\ pkt.again = pkt.buf

(* C26: for every packet built by create the header's data_length is the   *)
(* number of bytes after the primary header minus 1:                       *)
(* len(p) = 6 + data_length + 1, and serialize(p) gives len(p) bytes.      *)
C26_DataLength ==
    /\ pkt.stage = "created" /\ pkt.raised = "none" =>
          len(pkt.p) = _CCSDS_HDR_SIZE + pkt.p.data_length + 1
    /\ pkt.stage = "serialized" =>
          pkt.raised = "none" /\ Len(pkt.buf) = len(pkt.p)

\* packet_size as deserialize computes it from the buffer it was given
PacketSize == _CCSDS_HDR_SIZE + from_bytes(slice(pkt.buf, 4, 6)) + 1

(* C27: deserialize of a buffer that holds a primary header fails with     *)
(* IncompletePacket when packet_size = 6 + data_length + 1 exceeds the     *)
(* length of the buffer, and with InvalidPacket when packet_size fits the  *)
(* buffer and exceeds 65542; in both cases no packet is returned.          *)
C27_SizeChecks ==
    pkt.stage = "deserialized" /\ Len(pkt.buf) >= _CCSDS_HDR_SIZE =>
       /\ PacketSize > Len(pkt.buf) =>
             pkt.raised = "IncompletePacketException" /\ pkt.q = NoPacket
       /\ PacketSize <= Len(pkt.buf) /\ PacketSize > _CCSDS_MAX_PACKET_SIZE =>
             pkt.raised = "InvalidPacketException" /\ pkt.q = NoPacket

\* a buffer cut short, and a buffer whose data_length was raised by the
\* replaced byte, were refused as incomplete
C27_Witness ==
    /\ pkt.stage = "deserialized"
    /\ Len(pkt.buf) >= _CCSDS_HDR_SIZE
    /\ PacketSize > Len(pkt.buf)
    /\ pkt.how \in {"truncated", "corrupted"}
    /\ pkt.raised = "IncompletePacketException"
    /\ pkt.exp.has_pec /\ pkt.exp.validate_pec

C29_SenderPassesReceiver ==
    /\ pkt.stage = "serialized" /\ pkt.p.has_pec
       /\ peer_bytes(pkt.p) # <<>> =>
          pkt.raised = "none" /\ calculateb(pkt.buf) = 0
    /\ pkt.stage = "deserialized" /\ pkt.how = "whole"
       /\ pkt.exp.has_pec /\ pkt.exp.validate_pec =>
          calculateb(pkt.buf) = 0 /\ pkt.raised = "none"


---------------------------------------------------------------------------
(* The validating constructor *)

\* a field of the keyword arguments is out of its range, the declared
\* data_length does not match the packet data field, or the packet is
\* oversize
Violation(kwargs) ==
    \/ kwargs.packet_version_number # 0
    \/ kwargs.apid > 2047
    \/ (IF kwargs.cls = "TC" THEN kwargs.name ELSE kwargs.seq_count) > 16383
    \/ kwargs.seq_flags > 3
    \/ /\ kwargs.secondary_header_flag
       /\ \/ kwargs.service_type > 255
          \/ kwargs.service_subtype > 255
          \/ kwargs.pus_version > 15
          \/ kwargs.ack_flags > 15
          \/ kwargs.spacecraft_time_ref_status > 15
          \/ kwargs.source > 65535
          \/ kwargs.msg_type_counter > 65535
          \/ kwargs.destination > 65535
    \/ kwargs.data_length # None
       /\ kwargs.data_length # RightDataLength(kwargs)
    \/ _CCSDS_HDR_SIZE + RightDataLength(kwargs) + 1 > _CCSDS_MAX_PACKET_SIZE

(* C31: create raises InvalidPacket and builds no packet on any violation: *)
(* a version other than 0, an APID above 2047, a sequence count or name    *)
(* above 16383, sequence flags above 3, a service type or subtype above    *)
(* 255, a 4-bit field above 15, a 16-bit optional field above 65535, a     *)
(* declared data_length that does not match the payload, an oversize       *)
(* packet.                                                                 *)
C31_CreateValidates ==
    pkt.stage = "created" /\ Violation(pkt.kwargs) =>
       pkt.raised = "InvalidPacketException" /\ pkt.p = NoPacket


---------------------------------------------------------------------------
(* The request id *)

\* the fields of the primary header the request id is made of
KeyFields(p) ==
    <<p.packet_version_number, p.packet_type, p.secondary_header_flag,
      p.apid, p.seq_flags, p.seq_count_or_name>>

\* the request id agrees with the bytes serialize gives for the packet
AgreesWithSerialize(p) ==
    /\ payload_len(p.payload) = Len(p.payload) =>
          CcsdsSpacePacket_request_id(p)
            = SubSeq(CcsdsSpacePacket_serialize(p).bytes, 1, 4)
    /\ serialize(p).raised = "none" =>
          CcsdsSpacePacket_request_id(p) = SubSeq(serialize(p).bytes, 1, 4)

(* C32: request_id(p) is the 4-byte (packet id, sequence control) pair of  *)
(* the primary header of p: the first four bytes of what                   *)
(* CcsdsSpacePacket.serialize, and serialize of the class when it returns, *)
(* give for p; two packets with the same version, type, secondary header   *)
(* flag, APID, sequence flags and name have the same request id whatever   *)
(* their secondary headers and payloads.                                   *)
C32_RequestId ==
    /\ pkt.stage # "args" /\ pkt.p # NoPacket => AgreesWithSerialize(pkt.p)
    /\ pkt.stage \in {"deserialized", "reserialized"} /\ pkt.q # NoPacket =>
          /\ AgreesWithSerialize(pkt.q)
          /\ KeyFields(pkt.q) = KeyFields(pkt.p) =>
                CcsdsSpacePacket_request_id(pkt.q)
                  = CcsdsSpacePacket_request_id(pkt.p)

\* a TC came back with another service type in its secondary header and
\* with the request id of the packet sent
C32_Witness ==
    /\ pkt.stage = "deserialized"
    /\ pkt.p.cls = "TC"
    /\ pkt.q # NoPacket
    /\ KeyFields(pkt.q) = KeyFields(pkt.p)
    /\ pkt.q.service_type # pkt.p.service_type
    /\ CcsdsSpacePacket_request_id(pkt.q) = SubSeq(pkt.sent, 1, 4)
    /\ CcsdsSpacePacket_request_id(pkt.q) = <<24, 16, 192, 80>>

---------------------------------------------------------------------------
(* Event enable / disable requests *)

\* the ids a well-formed enable / disable request lists
Listed(app_data) == unpack(EventIdSize, Suffix(app_data, EventCountSize))

\* the request carries its count and that many ids
WellFormed(app_data) ==
    /\ Len(app_data) >= EventCountSize
    /\ Len(app_data) = EventCountSize + EventIdSize * app_data[1]

\* C33: an enable / disable request listing N event ids sets the enabled
\* flag of every listed report that exists, skips listed ids that do not
\* exist and leaves every unlisted report unchanged
C33_TogglesListed ==
    (last.op \in {"tc5", "tc6"} /\ WellFormed(last.app_data))
       => LET ids == {Listed(last.app_data)[i] : i \in DOMAIN Listed(last.app_data)}
          IN /\ DOMAIN ev.reports = DOMAIN last.before.reports
             /\ \A i \in DOMAIN ev.reports :
                   ev.reports[i] =
                      IF last.before.reports[i].id \in ids
                      THEN [last.before.reports[i] EXCEPT !.enabled = (last.op = "tc5")]
                      ELSE last.before.reports[i]

---------------------------------------------------------------------------
(* The report of the disabled events *)

\* the place of the report with the id in the order the reports were added
Place(e, eid) == CHOOSE i \in DOMAIN e.reports : e.reports[i].id = eid

\* C34: a report-disabled-events request with empty application data writes
\* exactly one TM[5,8] whose payload is the count of the disabled reports
\* followed by their ids, each once, in the order the reports were added,
\* no enabled report among them, and the request changes no report
C34_DisabledEventsReport ==
    (last.op = "tc7" /\ last.app_data = <<>>)
       => /\ ev = last.before
          /\ Len(out) = last.outlen + 1
          /\ LET p == out[Len(out)]
                 ids == Listed(p.source_data)
                 disabled == {r \in {ev.reports[i] : i \in DOMAIN ev.reports} : ~r.enabled}
             IN /\ p.service = 5
                /\ p.subservice = 8
                /\ WellFormed(p.source_data)
                /\ p.source_data[1] = Cardinality(disabled)
                /\ Len(ids) = Cardinality(disabled)
                /\ {ids[i] : i \in DOMAIN ids} = {r.id : r \in disabled}
                /\ \A i, j \in DOMAIN ids : i < j => Place(ev, ids[i]) < Place(ev, ids[j])

\* two reports are disabled, a third one or none is enabled, and the request
\* has listed the two
C34_Witness ==
    /\ last.op = "tc7"
    /\ last.app_data = <<>>
    /\ last.ok
    /\ Len(out) = last.outlen + 1
    /\ Cardinality({i \in DOMAIN ev.reports : ~ev.reports[i].enabled}) = 2
    /\ Len(out[Len(out)].source_data) = EventCountSize + 2 * EventIdSize

---------------------------------------------------------------------------
(* Create requests *)

\* the fields of a create request: collection interval, N and the N ids
RequestInterval ==
    from_bytes(Prefix(Suffix(last.app_data, StructureIdSize), CollectionIntervalSize))

RequestCount ==
    from_bytes(Prefix(Suffix(last.app_data, StructureIdSize + CollectionIntervalSize),
                      CountSize))

RequestParamIds ==
    unpack(ParamIdSize,
           Prefix(Suffix(last.app_data,
                         StructureIdSize + CollectionIntervalSize + CountSize),
                  RequestCount * ParamIdSize))

\* a create request of a new structure id with N distinct parameter ids and
\* no super-commutated array
CreateRequest ==
    /\ last.op = "command"
    /\ last.subservice \in {1, 2}
    /\ RequestSid \notin DOMAIN TableBefore
    /\ Len(last.app_data) = StructureIdSize + CollectionIntervalSize + CountSize
                            + RequestCount * ParamIdSize + CountSize
    /\ Len(RequestParamIds) = RequestCount
    /\ ~HasDuplicates(RequestParamIds)
    /\ Suffix(last.app_data, Len(last.app_data) - CountSize) = to_bytes(0, CountSize)

\* C35: a create request builds the report from exactly the requested
\* parameter ids that are in the parameter table of the service, in request
\* order, drops the unknown ids and succeeds; the report has the requested
\* structure id and collection interval
C35_CreateDropsUnknown ==
    CreateRequest
       => /\ last.ret = RetBool(TRUE)
          /\ DOMAIN TableAfter = DOMAIN TableBefore \cup {RequestSid}
          /\ TableAfter[RequestSid].id = RequestSid
          /\ TableAfter[RequestSid].collection_interval = RequestInterval
          /\ TableAfter[RequestSid].params
                = SelectSeq(RequestParamIds, LAMBDA pid : pid \in last.before.params)

---------------------------------------------------------------------------
(* Collection intervals *)

\* C36: a modify-collection-interval command carrying a (structure id,
\* interval) pair sets the collection interval of the named report, if the
\* addressed table has it, to the interval given, and leaves the interval
\* of every other report unchanged
C36_ModifyIntervals ==
    \A sid \in HkSids, interval \in {7} :
       (/\ last.op = "command"
        /\ last.subservice \in {31, 32}
        /\ last.app_data = pack(2, <<1, sid, interval>>))
       => /\ DOMAIN TableAfter = DOMAIN TableBefore
          /\ \A k \in DOMAIN TableAfter :
                TableAfter[k].collection_interval
                   = IF k = sid THEN interval
                     ELSE TableBefore[k].collection_interval

---------------------------------------------------------------------------
(* Super-commutated arrays *)

\* the create or append command whose handler reaches the number of
\* fixed-length arrays in its application data, which is 1
SuperCommutatedRequest ==
    /\ last.op = "process"
    /\ last.before.params # {}
    /\ \/ /\ last.subservice \in {1, 2}
          /\ last.app_data \in {pack(2, <<sid, 5, 1, 1, 1>>) : sid \in HkSids}
          /\ RequestSid \notin DOMAIN TableBefore
       \/ /\ last.subservice \in {29, 30}
          /\ last.app_data \in {pack(2, <<sid, 1, 2, 1>>) : sid \in HkSids}
          /\ RequestSid \in DOMAIN TableBefore
          /\ ~TableBefore[RequestSid].enabled

\* the verification reports the command has written
ReportsOfCommand == {out[i].subservice : i \in (last.outlen + 1)..Len(out)}

\* C37: a create or append request whose trailing super-commutated array
\* count is not zero changes no report table and is reported as failed: the
\* loop goes on and a failure report is written for each requested ack stage
C37_SuperCommutatedRejected ==
    SuperCommutatedRequest
       => /\ hk = last.before
          /\ last.raised = "none"
          /\ ack(last, ACCEPTANCE) => 2 \in ReportsOfCommand
          /\ ack(last, COMPLETION) => 8 \in ReportsOfCommand

---------------------------------------------------------------------------
(* The shared sequence count *)

---------------------------------------------------------------------------
(* The life of a report *)

\* the subservices of a flavor: create, delete, enable, disable, append
CreateOf(d) == IF d THEN 2 ELSE 1
DeleteOf(d) == IF d THEN 4 ELSE 3
EnableOf(d) == IF d THEN 7 ELSE 5
DisableOf(d) == IF d THEN 8 ELSE 6
AppendOf(d) == IF d THEN 30 ELSE 29

\* the commands of the log after the last create command that succeeded
SinceCreate(d, log) ==
    LET creates == {i \in DOMAIN log : /\ log[i].subservice = CreateOf(d)
                                       /\ log[i].ret = RetBool(TRUE)}
        c == CHOOSE i \in creates : \A j \in creates : j <= i
    IN SubSeq(log, c + 1, Len(log))

\* an enable command has been processed since the report was created and
\* no disable command after it
EnabledSince(d, log) ==
    LET since == SinceCreate(d, log)
        toggles == {i \in DOMAIN since :
                       since[i].subservice \in {EnableOf(d), DisableOf(d)}}
    IN /\ toggles # {}
       /\ since[CHOOSE i \in toggles : \A j \in toggles : j <= i].subservice
             = EnableOf(d)

\* C39: a report created by a create command is disabled on creation and
\* stays disabled until an enable command naming it is processed; until
\* then an append command merges into it and a delete command removes it,
\* and from the enable command until the next disable command an append
\* command is refused and a delete command leaves it in the table
C39_DisabledUntilEnabled ==
    \A d \in BOOLEAN :
       /\ 1 \in DOMAIN Table(hk, d)
             => Table(hk, d)[1].enabled = EnabledSince(d, last.log)
       /\ (/\ last.op = "command"
           /\ last.subservice \in {AppendOf(d), DeleteOf(d)}
           /\ 1 \in DOMAIN Table(last.before, d))
          => IF EnabledSince(d, SubSeq(last.log, 1, Len(last.log) - 1))
             THEN /\ hk = last.before
                  /\ last.subservice = AppendOf(d)
                        => last.ret = RetEnum(PUS3_CANNOT_MODIFY_ENABLED_REPORT)
             ELSE /\ last.subservice = AppendOf(d)
                        => /\ last.ret = RetBool(TRUE)
                           /\ Table(hk, d)[1].params = <<1, 2>>
                           /\ ~Table(hk, d)[1].enabled
                  /\ last.subservice = DeleteOf(d) => 1 \notin DOMAIN Table(hk, d)

\* the report was created and enabled, and the append command was refused
C39_Witness ==
    /\ Len(last.log) = 3
    /\ last.log[1] = [subservice |-> 1, ret |-> RetBool(TRUE)]
    /\ last.log[2].subservice = 5
    /\ last.log[3] = [subservice |-> 29,
                      ret |-> RetEnum(PUS3_CANNOT_MODIFY_ENABLED_REPORT)]
    /\ hk.housekeeping[1].enabled
    /\ hk.housekeeping[1].params = <<1>>

---------------------------------------------------------------------------
(* The active policy *)

\* C40: get_policy() returns the policy most recently passed to set_policy,
\* and the failure-code type read through the active policy is not changed
\* by constructing or configuring a policy instance that is not the active
\* one
C40_ActivePolicyFrame ==
    /\ get_policy(policy) = last.passed
    /\ (last.op \in {"construct", "configure"} /\ last.arg # get_policy(last.before))
          => failure_code_type(policy) = failure_code_type(last.before)

====
